---- MODULE Spec2Model ----
(***************************************************************************)
(* Model of freifunk-map-modern: the SSE subscriber hub (internal/sse),    *)
(* the snapshot store (internal/store), the federation orchestrator        *)
(* (internal/federation) and the URL-safety gate (internal/urlcheck).      *)
(***************************************************************************)
EXTENDS Integers, Sequences, FiniteSets, TLC

(***************************************************************************)
(* Program constants and model bounds                                      *)
(***************************************************************************)
\* sse.go: const maxSSEClients = 1000
maxSSEClients == 1000
\* sse.go: make(chan []byte, 16)
ChanCap == 16
\* number of /api/events requests (HandleSSE goroutines) that arrive
NumHandlers == 3
\* number of broadcasts the refresh loop makes (the background startup
\* refresh of main.go broadcasts at most once)
MaxLoopBroadcasts == 1
\* number of ticker firings of Store.RunRefreshLoop that are followed ...
MaxTicks == 2
\* ... and of those that follow the startup refresh of main.go
MaxStartupTicks == 1

Handlers == 1..NumHandlers
\* the goroutines that call hub.Broadcast: the background startup refresh of
\* main.go ("bg") and Store.RunRefreshLoop ("loop")
Procs == {"bg", "loop"}

VARIABLES
  \* ---- sse.Hub ----
  clients,     \* Hub.clients: the set of registered channels
  muWriter,    \* Hub.mu: the goroutines holding the write lock (at most one)
  muReaders,   \* Hub.mu: the goroutines holding the read lock
  chanBuf,     \* chanBuf[ch]: the buffered messages of channel ch (every channel made so far)
  chanClosed,  \* chanClosed[ch]: close(ch) has been executed
  \* ---- HandleSSE goroutines ----
  hpc,         \* position of each handler
  hch,         \* the channel Subscribe returned to the handler (0: nil)
  hresp,       \* HTTP status the handler answered with (0: none yet)
  received,    \* the data frames the handler wrote to its client, in order
  \* ---- Broadcast callers ----
  bpc,         \* position of each broadcaster inside Hub.Broadcast
  bmsg,        \* the marshalled update being broadcast
  btodo,       \* channels the range loop has not visited yet
  bcount,      \* number of Broadcast calls the goroutine has made
  \* ---- history ----
  nbroadcast,  \* number of Broadcast calls so far (gives each message its id)
  delivered,   \* <<id, ch>>: message id was enqueued on ch
  skipped,     \* <<id, ch>>: message id found ch full and was dropped for ch
  dupAttempt,  \* some broadcast tried the same channel twice
  sentOnClosed, \* a send was executed on a closed channel (a Go panic)
  \* ---- federation.Store (embeds store.Store) ----
  startup,        \* "cached": RestoreState succeeded; "nocache": it did not
  fsCommunities,  \* Store.communities
  fsSources,      \* Store.sources
  fsGrafanaCache, \* Store.grafanaCache
  fsNodeCommMap,  \* Store.nodeCommMap
  heap,           \* the *Snapshot objects allocated so far
  snapshot,       \* store.Store.snapshot: a pointer into heap
  published,      \* the pointers that were passed to SetSnapshot (or set by store.New)
  disk,           \* federation_state.json
  grafanaFile,    \* grafana_cache.json
  requests,       \* the URLs an HTTP request was built for
  gateAccepted,   \* the URLs urlcheck.IsSafeURL was called on and accepted
  \* ---- the goroutines that refresh: locals of DiscoverAndRefresh / RefreshAllSources ----
  fpc,            \* position of each refresher
  fold,           \* old := fs.GetSnapshot()
  fsrcs,          \* sources := fs.GetSources()
  facc,           \* merged, nodeCommMap, seenNodes, seenLinks, successCount, failCount
  fgot,           \* the <<source, document>> pairs merged in this pass, in merge order
  fptr,           \* snap := fs.ProcessData(merged)
  fprev,          \* the snapshot that this pass's fs.SetSnapshot(snap) replaced (0: none yet)
  fticks,         \* ticker firings of RunRefreshLoop still to be followed
  \* ---- the browser (web/app.js) behind handler Browser ----
  rsnap,          \* the snapshot handleNodes read for the browser's loadData()
  view,           \* nodeMap
  cload,          \* loadData(): "none", "wanted" (called), "fetched" (response on its way)
  capplied,       \* number of received frames that onmessage has applied
  \* ---- urlcheck.IsSafeURL, called on its own ----
  gpc,            \* "call": about to be called; "done": it has answered; "idle"
  gurl,           \* the URL it is called on
  gsafe,          \* its answer
  \* ---- api.handleNodeMetrics ----
  cfg,            \* config.Config: Federation, GrafanaURL
  mpc,            \* "request": a request has arrived; "done": it is answered; "idle"
  mreq,           \* the request: the path below /api/metrics/ and the query parameters
  mup,            \* what the time-series server does with each query
  mresp,          \* the response: status, Cache-Control, the result list
  mqueries,       \* the requests the handler sent to the time-series server
  \* ---- store.ComputeDiff, called on its own ----
  dpc,            \* "call": about to be called; "done": it has returned; "idle"
  dold,           \* the snapshot old points to
  dcur,           \* the snapshot cur points to
  dupd,           \* the SSEUpdate it returned
  \* ---- Store.ProcessData, called on its own (Store.Refresh of the single-community mode) ----
  ppc,            \* "call": about to be called; "done": it has returned; "idle"
  praw,           \* the MeshviewerData raw points to
  psnap,          \* the Snapshot it returned
  \* ---- config.Config.DomainNames, swapped around ProcessData by the federation store ----
  cfgDomainNames, \* fs.Cfg.DomainNames
  forig,          \* origDomains := fs.Cfg.DomainNames of each refresher
  \* ---- Store.DiscoverAndRefresh up to the assignment, called on its own ----
  rpc,            \* "call": DiscoverAndRefresh is about to resolve; "done": it is about to assign; "idle"
  rworld,         \* the directory after DiscoverCommunities and what the upstreams answer
  rarrival,       \* the order in which the probe goroutines deliver
  rout,           \* communities, sources and grafanaCache, as they are about to be assigned
  \* ---- federation.DiscoverCommunities after the download, called on its own ----
  kpc,            \* "call": DiscoverCommunities has read the directory; "merged": the entries are collapsed; "done": it has returned; "idle"
  kdir,           \* the directory: key -> entry
  korder,         \* the order in which range directory yields the keys
  kout,           \* communities
  \* ---- federation.DiscoverGrafanaURLs, called on its own, run after run ----
  gruns,          \* the number of runs of DiscoverGrafanaURLs so far
  grworld,        \* what the network answered in the last run
  grprev,         \* grafana_cache.json as the last run loaded it
  grfile,         \* grafana_cache.json
  grout,          \* what the last run returned, and the requests it made
  \* ---- Store.GrafanaInfoForNode after a merge, called on its own ----
  opc,            \* "merge": the sources are fetched; "merged": RefreshAllSources has set nodeCommMap; "done": every node of the snapshot was resolved; "idle"
  osrcs,          \* the sources
  odocs,          \* what each source reported
  omap,           \* fs.nodeCommMap
  oids,           \* snapshot id -> the original id GrafanaInfoForNode returned
  \* ---- one file read by Store.Refresh or by Store.RefreshAllSources, on its own ----
  ipc,            \* "fetch": the file is about to be read; "done": the snapshot is published; "idle"
  imode,          \* "single": store.Store.Refresh; "federation": RefreshAllSources over one source
  itype,          \* the format of the file, as CommunitySource.DataType names it
  ifile,          \* the node records of the file
  isnap,          \* the published snapshot
  \* ---- main from the signal on ----
  mainpc,         \* main: "serving": waiting for a signal; "shutdown": inside server.Shutdown; "defers": Shutdown has returned; "return": the deferred calls have run; "exited": the program has ended
  ctxDone,        \* the root context is cancelled
  loopReturned,   \* RunRefreshLoop has returned and its deferred Stop calls have run
  \* ---- the three sync.RWMutex of the program and the goroutines that take them ----
  lpc,            \* lpc[g]: the index of the next lock operation of goroutine g in its script
  lscript,        \* lscript[g]: the lock and channel operations g executes, in program order
  lkWriter,       \* lkWriter[l]: the goroutines holding the write lock of l (at most one)
  lkReaders,      \* lkReaders[l][g]: the number of read locks of l that g holds
  lkPending,      \* lkPending[l]: the goroutines blocked inside l.Lock()
  \* ---- a fan-out of ResolveBestSources, DiscoverGrafanaURLs or RefreshAllSources ----
  fanCfg,         \* the fan-out: its kind, the number of goroutines, the capacities of sem and ch, the results of each goroutine
  fanCaller,      \* the calling function: "spawn" (in the for loop with go func), "range" (for r := range ch), "done"; "idle"
  fanSpawned,     \* the number of goroutines started so far (wg.Add(1); go func)
  fanW,           \* fanW[w]: "sem" (at sem <- struct{}{}), "run" (holds a slot of sem), "done" (wg.Done has run); "unborn"
  fanLeft,        \* fanLeft[w]: the results w has still to send
  fanSem,         \* the number of values in sem
  fanCh,          \* fanCh[w]: the number of results of w that are in ch
  fanClosed,      \* the number of close(ch) executed
  fanCloser,      \* the goroutine with wg.Wait(): "unborn", "wait", "done"
  fanCollected,   \* fanCollected[w]: the number of results of w the range loop has received
  fanPanic,       \* a send on the closed channel was executed
  \* ---- federation.ResolveBestSources, called on its own, pass after pass ----
  ppass,          \* the number of the resolve pass (calls of ResolveBestSources)
  pphase,         \* "probing": the goroutines of the communities are probing; "idle": ResolveBestSources has returned
  pworld,         \* what the network answers to the probes of this pass
  pres,           \* pres[key]: the probes the goroutine of the community makes, in order, and the sources it sends
  ppos,           \* ppos[key]: the index of the next probe of the goroutine
  pdead,          \* the hosts to which a probe of this pass has failed with a host-fatal error so far
  plate,          \* the probes of this pass that were sent to a host after a host-fatal failure on it: <<key, URL>>
  pprevdead,      \* pdead at the end of the pass before
  psources,       \* the sources the last call of ResolveBestSources returned (none while a call runs)
  \* ---- passes of RefreshAllSources and restarts over two sources ----
  ydisk,          \* the state file of the run of passes and restarts
  ysnap,          \* the published snapshot
  ymap,           \* Store.nodeCommMap
  yops,           \* number of passes and restarts so far
  ylast,          \* the last operation: its kind, the fetch results and their arrival order, the snapshot and the file before it
  yprev           \* the operation before the last

hubVars == <<clients, muWriter, muReaders, chanBuf, chanClosed>>
handlerVars == <<hpc, hch, hresp, received>>
bcastVars == <<bpc, bmsg, btodo, bcount>>
histVars == <<nbroadcast, delivered, skipped, dupAttempt, sentOnClosed>>
fedVars == <<startup, fsCommunities, fsSources, fsGrafanaCache, fsNodeCommMap, heap,
             snapshot, published, disk, grafanaFile, requests, gateAccepted>>
refVars == <<fpc, fold, fsrcs, facc, fgot, fptr, fprev, fticks>>
clientVars == <<rsnap, view, cload, capplied>>
gateVars == <<gpc, gurl, gsafe>>
metricsVars == <<cfg, mpc, mreq, mup, mresp, mqueries>>
diffVars == <<dpc, dold, dcur, dupd>>
buildVars == <<ppc, praw, psnap>>
resolveVars == <<rpc, rworld, rarrival, rout>>
collapseVars == <<kpc, kdir, korder, kout>>
grafanaVars == <<gruns, grworld, grprev, grfile, grout>>
originalVars == <<opc, osrcs, odocs, omap, oids>>
ingestVars == <<ipc, imode, itype, ifile, isnap>>
shutdownVars == <<mainpc, ctxDone, loopReturned>>
lockVars == <<lpc, lscript, lkWriter, lkReaders, lkPending>>
fanoutVars == <<fanCfg, fanCaller, fanSpawned, fanW, fanLeft, fanSem, fanCh, fanClosed, fanCloser, fanCollected, fanPanic>>
probeVars == <<ppass, pphase, pworld, pres, ppos, pdead, plate, pprevdead, psources>>
cycleVars == <<ydisk, ysnap, ymap, yops, ylast, yprev>>
unitVars == <<gateVars, metricsVars, diffVars, buildVars, resolveVars, collapseVars, grafanaVars, originalVars, ingestVars, shutdownVars, lockVars, fanoutVars, probeVars, cycleVars>>
domVars == <<cfgDomainNames, forig>>
storeVars == <<fedVars, refVars, clientVars, unitVars, domVars>>
vars == <<hubVars, handlerVars, bcastVars, histVars, storeVars>>

(***************************************************************************)
(* sync.RWMutex                                                            *)
(***************************************************************************)
\* a writer that does not wait for the readers to leave
CanLockIgnoringReaders == muWriter = {}

CanLock == muWriter = {} /\ muReaders = {}

CanRLock == muWriter = {}

(***************************************************************************)
(* Hub.Subscribe, called by HandleSSE.  The whole function runs under the  *)
(* write lock (Lock, defer Unlock), so it is one step.                     *)
(***************************************************************************)
\* an off-by-one cap check
SubscribeFullOffByOne(n) == n > maxSSEClients

SubscribeFull(n) == n >= maxSSEClients

HandleSSE_Subscribe(h) ==
  /\ hpc[h] = "start"
  /\ CanLock
  /\ IF SubscribeFull(Cardinality(clients))
       THEN \* return nil; http.Error(..., StatusServiceUnavailable)
            /\ hch' = [hch EXCEPT ![h] = 0]
            /\ hresp' = [hresp EXCEPT ![h] = 503]
            /\ hpc' = [hpc EXCEPT ![h] = "done"]
            /\ UNCHANGED <<clients, chanBuf, chanClosed>>
       ELSE \* ch := make(chan []byte, 16); h.clients[ch] = struct{}{}
            /\ chanBuf' = Append(chanBuf, <<>>)
            /\ chanClosed' = Append(chanClosed, FALSE)
            /\ clients' = clients \cup {Len(chanBuf) + 1}
            /\ hch' = [hch EXCEPT ![h] = Len(chanBuf) + 1]
            /\ hresp' = [hresp EXCEPT ![h] = 200]
            /\ hpc' = [hpc EXCEPT ![h] = "stream"]
  /\ UNCHANGED <<muWriter, muReaders, received, bcastVars, histVars>>
  /\ UNCHANGED storeVars

\* case data, ok := <-ch: a buffered message is written as a data frame
HandleSSE_Receive(h) ==
  /\ hpc[h] = "stream"
  /\ Len(chanBuf[hch[h]]) > 0
  /\ received' = [received EXCEPT ![h] = Append(@, Head(chanBuf[hch[h]]))]
  /\ chanBuf' = [chanBuf EXCEPT ![hch[h]] = Tail(@)]
  /\ UNCHANGED <<clients, muWriter, muReaders, chanClosed, hpc, hch, hresp,
                 bcastVars, histVars>>
  /\ UNCHANGED storeVars

\* case <-ctx.Done(): return, which runs the deferred hub.Unsubscribe(ch).
\* (!ok on a closed channel returns the same way.)
HandleSSE_Disconnect(h) ==
  /\ hpc[h] = "stream"
  /\ hpc' = [hpc EXCEPT ![h] = "unsub"]
  /\ UNCHANGED <<hubVars, hch, hresp, received, bcastVars, histVars>>
  /\ UNCHANGED storeVars

(***************************************************************************)
(* Hub.Unsubscribe: Lock; delete(clients, ch); Unlock; close(ch)           *)
(***************************************************************************)
\* h.mu.Lock(); delete(h.clients, ch); h.mu.Unlock(): nothing else runs while
\* the write lock is held, so the critical section is one step
\* an Unsubscribe that closes the channel and leaves it in the set
Unsubscribe_CloseOnly(h) ==
  /\ hpc[h] = "unsub"
  /\ CanLock
  /\ hpc' = [hpc EXCEPT ![h] = "unsub_close"]
  /\ UNCHANGED <<hubVars, hch, hresp, received, bcastVars, histVars>>
  /\ UNCHANGED storeVars

Unsubscribe_Delete(h) ==
  /\ hpc[h] = "unsub"
  /\ CanLock
  /\ clients' = clients \ {hch[h]}
  /\ hpc' = [hpc EXCEPT ![h] = "unsub_close"]
  /\ UNCHANGED <<muWriter, muReaders, chanBuf, chanClosed, hch, hresp, received,
                 bcastVars, histVars>>
  /\ UNCHANGED storeVars

Unsubscribe_Close(h) ==
  /\ hpc[h] = "unsub_close"
  /\ chanClosed' = [chanClosed EXCEPT ![hch[h]] = TRUE]
  /\ hpc' = [hpc EXCEPT ![h] = "done"]
  /\ UNCHANGED <<clients, muWriter, muReaders, chanBuf, hch, hresp, received,
                 bcastVars, histVars>>
  /\ UNCHANGED storeVars

(***************************************************************************)
(* Hub.Broadcast(update): json.Marshal; RLock; for ch := range clients     *)
(* { select { case ch <- data: default: } }; RUnlock (deferred)            *)
(***************************************************************************)
BroadcastLimit(b) == IF b = "bg" THEN 1 ELSE MaxLoopBroadcasts

\* data, err := json.Marshal(update)
Broadcast_Call(b, upd) ==
  /\ bpc[b] = "idle"
  /\ bcount' = [bcount EXCEPT ![b] = @ + 1]
  /\ nbroadcast' = nbroadcast + 1
  /\ bmsg' = [bmsg EXCEPT ![b] = [id |-> nbroadcast + 1, upd |-> upd]]
  /\ bpc' = [bpc EXCEPT ![b] = "rlock"]
  /\ UNCHANGED <<hubVars, handlerVars, btodo, delivered, skipped, dupAttempt,
                 sentOnClosed>>

\* h.mu.RLock(); the range loop starts over the membership set
Broadcast_RLock(b) ==
  /\ bpc[b] = "rlock"
  /\ CanRLock
  /\ muReaders' = muReaders \cup {b}
  /\ btodo' = [btodo EXCEPT ![b] = clients]
  /\ bpc' = [bpc EXCEPT ![b] = "send"]
  /\ UNCHANGED <<clients, muWriter, chanBuf, chanClosed, handlerVars, bmsg, bcount,
                 histVars>>
  /\ UNCHANGED storeVars

\* select { case ch <- data: default: }: the buffer after the attempt
\* a send that overwrites the oldest message instead of skipping
SelectSendOverwrite(buf, data) ==
  IF Len(buf) < ChanCap THEN Append(buf, data) ELSE Append(Tail(buf), data)

SelectSend(buf, data) ==
  IF Len(buf) < ChanCap THEN Append(buf, data) ELSE buf

\* one iteration of the range loop; Go's map iteration order is unspecified
Broadcast_Send(b, ch) ==
  /\ bpc[b] = "send"
  /\ ch \in btodo[b]
  /\ btodo' = [btodo EXCEPT ![b] = @ \ {ch}]
  /\ IF chanClosed[ch]
       THEN \* send on a closed channel panics
            /\ sentOnClosed' = TRUE
            /\ UNCHANGED <<chanBuf, delivered, skipped>>
       ELSE /\ chanBuf' = [chanBuf EXCEPT ![ch] = SelectSend(@, bmsg[b])]
            /\ IF Len(chanBuf[ch]) < ChanCap
                 THEN delivered' = delivered \cup {<<bmsg[b].id, ch>>} /\ skipped' = skipped
                 ELSE skipped' = skipped \cup {<<bmsg[b].id, ch>>} /\ delivered' = delivered
            /\ UNCHANGED sentOnClosed
  /\ dupAttempt' = (dupAttempt \/ <<bmsg[b].id, ch>> \in delivered \cup skipped)
  /\ UNCHANGED <<clients, muWriter, muReaders, chanClosed, handlerVars, bpc, bmsg,
                 bcount, nbroadcast>>
  /\ UNCHANGED storeVars

\* the loop is over: deferred h.mu.RUnlock()
Broadcast_RUnlock(b) ==
  /\ bpc[b] = "send"
  /\ btodo[b] = {}
  /\ muReaders' = muReaders \ {b}
  /\ bpc' = [bpc EXCEPT ![b] = "idle"]
  /\ UNCHANGED <<clients, muWriter, chanBuf, chanClosed, handlerVars, bmsg, btodo,
                 bcount, histVars>>
  /\ UNCHANGED storeVars

(***************************************************************************)
(* internal/store and internal/federation: data                            *)
(***************************************************************************)
\* Go maps are functions with a finite domain
EmptyMap == [k \in {} |-> <<>>]

MapPut(m, k, v) == [x \in (DOMAIN m) \cup {k} |-> IF x = k THEN v ELSE m[x]]

MapGet(m, k, default) == IF k \in DOMAIN m THEN m[k] ELSE default

SeqToSet(s) == {s[i] : i \in 1..Len(s)}

\* the element of a set of one element
Only(S) == CHOOSE x \in S : TRUE

\* store.AppendUnique
AppendUnique(s, v) == IF \E i \in 1..Len(s) : s[i] = v THEN s ELSE Append(s, v)

RECURSIVE AppendUniqueAll(_, _)
AppendUniqueAll(s, vs) ==
  IF vs = <<>> THEN s ELSE AppendUniqueAll(AppendUnique(s, Head(vs)), Tail(vs))

\* store.RawNode (the fields the merge, the snapshot builder and the diff read)
RawNode(id, host, online, gw, ncli, gateway) ==
  [NodeID |-> id, Hostname |-> host, IsOnline |-> online, IsGateway |-> gw,
   Clients |-> ncli, LoadAvg |-> 0, MemoryUsage |-> 0, Gateway |-> gateway,
   Domain |-> ""]

\* store.RawLink
RawLink(src, tgt) == [Source |-> src, Target |-> tgt]

\* store.MeshviewerData
MeshviewerData(nodes, links) == [Nodes |-> nodes, Links |-> links]

(***************************************************************************)
(* Store.RefreshAllSources: the merge of one fetch result                  *)
(***************************************************************************)
\* gwRename: original id -> suffixed id of the gateway nodes of one source
GwSuffixed(orig, communityKey) == orig \o "_" \o communityKey

GwOriginals(data) ==
  {data.Nodes[i].NodeID : i \in {j \in 1..Len(data.Nodes) :
      data.Nodes[j].IsGateway /\ data.Nodes[j].NodeID # ""}}

GwRename(data, communityKey, id) ==
  IF id \in GwOriginals(data) THEN GwSuffixed(id, communityKey) ELSE id

\* the three rewrite loops: node ids of gateways, gateway back-references, link endpoints
\* a rewrite that leaves the link endpoints alone
SuffixGatewaysNodesOnly(data, communityKey) ==
  [Nodes |-> [i \in 1..Len(data.Nodes) |->
                [data.Nodes[i] EXCEPT
                   !.NodeID = IF data.Nodes[i].IsGateway /\ @ # ""
                                THEN GwSuffixed(@, communityKey) ELSE @,
                   !.Gateway = GwRename(data, communityKey, @)]],
   Links |-> data.Links]

SuffixGateways(data, communityKey) ==
  [Nodes |-> [i \in 1..Len(data.Nodes) |->
                [data.Nodes[i] EXCEPT
                   !.NodeID = IF data.Nodes[i].IsGateway /\ @ # ""
                                THEN GwSuffixed(@, communityKey) ELSE @,
                   !.Gateway = GwRename(data, communityKey, @)]],
   Links |-> [i \in 1..Len(data.Links) |->
                [Source |-> GwRename(data, communityKey, data.Links[i].Source),
                 Target |-> GwRename(data, communityKey, data.Links[i].Target)]]]

\* the accumulator of the merge loop
MergeStart ==
  [Nodes |-> <<>>, Links |-> <<>>, nodeCommMap |-> EmptyMap, seenNodes |-> {},
   seenLinks |-> {}, successCount |-> 0, failCount |-> 0]

\* a merge that keeps the community keys of the first reporter only
RECURSIVE MergeNodesFirstKeysOnly(_, _, _, _)
MergeNodesFirstKeysOnly(acc, nodes, communityKey, allComms) ==
  IF nodes = <<>> THEN acc
  ELSE LET n0 == Head(nodes)
           nid == n0.NodeID
           n == IF n0.Domain = "" THEN [n0 EXCEPT !.Domain = communityKey] ELSE n0
           acc1 == IF nid = "" \/ nid \in acc.seenNodes THEN acc
                   ELSE [acc EXCEPT !.nodeCommMap = MapPut(@, nid, AppendUniqueAll(<<>>, allComms)),
                                    !.seenNodes = @ \cup {nid},
                                    !.Nodes = Append(@, n)]
       IN MergeNodesFirstKeysOnly(acc1, Tail(nodes), communityKey, allComms)

RECURSIVE MergeNodes(_, _, _, _)
MergeNodes(acc, nodes, communityKey, allComms) ==
  IF nodes = <<>> THEN acc
  ELSE LET n0 == Head(nodes)
           nid == n0.NodeID
           n == IF n0.Domain = "" THEN [n0 EXCEPT !.Domain = communityKey] ELSE n0
           comms == AppendUniqueAll(MapGet(acc.nodeCommMap, nid, <<>>), allComms)
           acc1 == IF nid = "" THEN acc
                   ELSE IF nid \in acc.seenNodes
                     THEN [acc EXCEPT !.nodeCommMap = MapPut(@, nid, comms)]
                     ELSE [acc EXCEPT !.nodeCommMap = MapPut(@, nid, comms),
                                      !.seenNodes = @ \cup {nid},
                                      !.Nodes = Append(@, n)]
       IN MergeNodes(acc1, Tail(nodes), communityKey, allComms)

\* lk := Source + ">" + Target
LinkKey(l) == l.Source \o ">" \o l.Target

RECURSIVE MergeLinks(_, _)
MergeLinks(acc, links) ==
  IF links = <<>> THEN acc
  ELSE LET l == Head(links)
           acc1 == IF LinkKey(l) \in acc.seenLinks THEN acc
                   ELSE [acc EXCEPT !.seenLinks = @ \cup {LinkKey(l)},
                                    !.Links = Append(@, l)]
       IN MergeLinks(acc1, Tail(links))

\* one iteration of "for r := range ch" for a result without error
MergeSuccess(acc, src, data) ==
  LET allComms == IF src.CommunityKeys = <<>> THEN <<src.CommunityKey>>
                  ELSE src.CommunityKeys
      d == SuffixGateways(data, src.CommunityKey)
      a1 == MergeNodes(acc, d.Nodes, src.CommunityKey, allComms)
      a2 == MergeLinks(a1, d.Links)
  IN [a2 EXCEPT !.successCount = @ + 1]

\* ... and for a result with r.err != nil
\* a failure that throws away what was merged so far
MergeFailureResets(acc) == [MergeStart EXCEPT !.failCount = acc.failCount + 1]

MergeFailure(acc) == [acc EXCEPT !.failCount = @ + 1]

(***************************************************************************)
(* Store.ProcessData: the snapshot builder                                 *)
(***************************************************************************)
EmptyStats ==
  [TotalNodes |-> 0, OnlineNodes |-> 0, TotalClients |-> 0, Gateways |-> 0,
   Communities |-> EmptyMap]

\* the snapshot of store.New
EmptySnapshot ==
  [Nodes |-> EmptyMap, NodeList |-> <<>>, Links |-> <<>>, Stats |-> EmptyStats]

\* strings.ToLower on the hostnames of the model
ToLower(h) ==
  CASE h = "GW-X" -> "gw-x"
    [] h = "GW-Y" -> "gw-y"
    [] h = "GW-Z" -> "gw-z"
    [] OTHER -> h

\* the lower-case hostnames of the model in Go's string order
HostnameOrder ==
  <<"c-1", "c-x", "c-x-dup", "c-y", "c-z", "gw-x", "gw-y", "gw-z", "n1", "n2", "n3">>

StringLess(a, b) ==
  \E i, j \in 1..Len(HostnameOrder) :
    HostnameOrder[i] = a /\ HostnameOrder[j] = b /\ i < j

\* the less function of sort.Slice(nodeList, ...): online first, then hostname
NodeLess(a, b) ==
  IF a.IsOnline # b.IsOnline THEN a.IsOnline
  ELSE StringLess(ToLower(a.Hostname), ToLower(b.Hostname))

\* nodeList holds pointers.  An element points to the node the map holds
\* under NodeID, or, once a later record of the same id has taken that place
\* in the map, to the node in Shadow, which the list alone still holds
ListEntry(id) == [NodeID |-> id, Shadow |-> <<>>]

NodeAt(nodes, e) == IF e.Shadow = <<>> THEN nodes[e.NodeID] ELSE e.Shadow[1]

RECURSIVE SortInsert(_, _, _)
SortInsert(sorted, e, nodes) ==
  IF sorted = <<>> THEN <<e>>
  ELSE IF NodeLess(NodeAt(nodes, e), NodeAt(nodes, Head(sorted))) THEN <<e>> \o sorted
  ELSE <<Head(sorted)>> \o SortInsert(Tail(sorted), e, nodes)

RECURSIVE SortNodeList(_, _)
SortNodeList(list, nodes) ==
  IF list = <<>> THEN <<>>
  ELSE SortInsert(SortNodeList(Tail(list), nodes), Head(list), nodes)

NodeOf(rn) ==
  [NodeID |-> rn.NodeID, Hostname |-> rn.Hostname, IsOnline |-> rn.IsOnline,
   IsGateway |-> rn.IsGateway, Clients |-> rn.Clients, LoadAvg |-> rn.LoadAvg,
   MemUsage |-> rn.MemoryUsage, Gateway |-> rn.Gateway, Domain |-> rn.Domain,
   Community |-> "", Communities |-> <<>>, Neighbours |-> <<>>]

RECURSIVE ProcessNodes(_, _)
ProcessNodes(snap, rawNodes) ==
  IF rawNodes = <<>> THEN snap
  ELSE LET rn == Head(rawNodes)
           st == snap.Stats
           st1 == [st EXCEPT
                     !.TotalNodes = @ + 1,
                     !.OnlineNodes = IF rn.IsOnline THEN @ + 1 ELSE @,
                     !.TotalClients = IF rn.IsOnline THEN @ + rn.Clients ELSE @,
                     !.Gateways = IF rn.IsGateway THEN @ + 1 ELSE @]
       IN ProcessNodes([snap EXCEPT !.Nodes = MapPut(@, rn.NodeID, NodeOf(rn)),
                                    !.NodeList =
                                       Append([i \in 1..Len(@) |->
                                                 IF @[i] = ListEntry(rn.NodeID)
                                                   THEN [@[i] EXCEPT !.Shadow =
                                                           <<snap.Nodes[rn.NodeID]>>]
                                                   ELSE @[i]],
                                              ListEntry(rn.NodeID)),
                                    !.Stats = st1],
                       Tail(rawNodes))

RECURSIVE ProcessLinks(_, _)
ProcessLinks(snap, rawLinks) ==
  IF rawLinks = <<>> THEN snap
  ELSE LET rl == Head(rawLinks)
           sok == rl.Source \in DOMAIN snap.Nodes
           tok == rl.Target \in DOMAIN snap.Nodes
           n1 == IF sok
                   THEN [snap.Nodes EXCEPT ![rl.Source].Neighbours = AppendUnique(@, rl.Target)]
                   ELSE snap.Nodes
           n2 == IF tok
                   THEN [n1 EXCEPT ![rl.Target].Neighbours = AppendUnique(@, rl.Source)]
                   ELSE n1
       IN ProcessLinks([snap EXCEPT !.Nodes = n2,
                                    !.Links = Append(@, [Source |-> rl.Source,
                                                         Target |-> rl.Target])],
                       Tail(rawLinks))

ProcessData(raw) ==
  LET snap == ProcessLinks(ProcessNodes(EmptySnapshot, raw.Nodes), raw.Links)
  IN [snap EXCEPT !.NodeList = SortNodeList(@, snap.Nodes)]

(***************************************************************************)
(* Store.RefreshAllSources: community tags and Stats.Communities           *)
(***************************************************************************)
TagNode(n, nodeCommMap) ==
  LET comms == MapGet(nodeCommMap, n.NodeID, <<>>)
  IN IF Len(comms) > 0 THEN [n EXCEPT !.Community = comms[1], !.Communities = comms]
     ELSE n

\* communityStats[c]++ for every node and every key c of the node
CommunityStats(nodes, nodeCommMap) ==
  LET commsOf(id) == MapGet(nodeCommMap, nodes[id].NodeID, <<>>)
      keys == UNION {SeqToSet(commsOf(id)) : id \in DOMAIN nodes}
  IN [c \in keys |-> Cardinality({id \in DOMAIN nodes : c \in SeqToSet(commsOf(id))})]

TagSnapshot(snap, nodeCommMap) ==
  [snap EXCEPT
     !.Nodes = [id \in DOMAIN snap.Nodes |-> TagNode(snap.Nodes[id], nodeCommMap)],
     !.Stats.Communities = CommunityStats(snap.Nodes, nodeCommMap)]

(***************************************************************************)
(* store.ComputeDiff                                                       *)
(***************************************************************************)
NodeDiff(nn) ==
  [NodeID |-> nn.NodeID, Hostname |-> nn.Hostname, IsOnline |-> nn.IsOnline,
   Clients |-> nn.Clients, LoadAvg |-> nn.LoadAvg, MemUsage |-> nn.MemUsage]

\* a diff that never lists a node as gone
ComputeDiffKeepsGone(old, cur) ==
  IF Cardinality(DOMAIN old.Nodes) = 0
    THEN [Type |-> "full", Stats |-> cur.Stats, Changed |-> {}, New |-> {}, Gone |-> {}]
    ELSE
      LET new == (DOMAIN cur.Nodes) \ (DOMAIN old.Nodes)
          changed == {NodeDiff(cur.Nodes[id]) :
                        id \in {i \in (DOMAIN cur.Nodes) \cap (DOMAIN old.Nodes) :
                                  \/ old.Nodes[i].IsOnline # cur.Nodes[i].IsOnline
                                  \/ old.Nodes[i].Clients # cur.Nodes[i].Clients
                                  \/ old.Nodes[i].LoadAvg # cur.Nodes[i].LoadAvg
                                  \/ old.Nodes[i].MemUsage # cur.Nodes[i].MemUsage}}
          gone == {}
      IN IF changed = {} /\ new = {} /\ gone = {}
           THEN [Type |-> "stats", Stats |-> cur.Stats, Changed |-> {}, New |-> {},
                 Gone |-> {}]
           ELSE [Type |-> "diff", Stats |-> cur.Stats, Changed |-> changed,
                 New |-> new, Gone |-> gone]

\* a diff that does not compare the load average
ComputeDiffIgnoresLoad(old, cur) ==
  IF Cardinality(DOMAIN old.Nodes) = 0
    THEN [Type |-> "full", Stats |-> cur.Stats, Changed |-> {}, New |-> {}, Gone |-> {}]
    ELSE
      LET new == (DOMAIN cur.Nodes) \ (DOMAIN old.Nodes)
          changed == {NodeDiff(cur.Nodes[id]) :
                        id \in {i \in (DOMAIN cur.Nodes) \cap (DOMAIN old.Nodes) :
                                  \/ old.Nodes[i].IsOnline # cur.Nodes[i].IsOnline
                                  \/ old.Nodes[i].Clients # cur.Nodes[i].Clients
                                  \/ old.Nodes[i].MemUsage # cur.Nodes[i].MemUsage}}
          gone == (DOMAIN old.Nodes) \ (DOMAIN cur.Nodes)
      IN IF changed = {} /\ new = {} /\ gone = {}
           THEN [Type |-> "stats", Stats |-> cur.Stats, Changed |-> {}, New |-> {},
                 Gone |-> {}]
           ELSE [Type |-> "diff", Stats |-> cur.Stats, Changed |-> changed,
                 New |-> new, Gone |-> gone]

\* a diff that never reports the type "stats"
ComputeDiffAlwaysDiff(old, cur) ==
  IF Cardinality(DOMAIN old.Nodes) = 0
    THEN [Type |-> "full", Stats |-> cur.Stats, Changed |-> {}, New |-> {}, Gone |-> {}]
    ELSE [Type |-> "diff", Stats |-> cur.Stats, Changed |-> {},
          New |-> (DOMAIN cur.Nodes) \ (DOMAIN old.Nodes),
          Gone |-> (DOMAIN old.Nodes) \ (DOMAIN cur.Nodes)]

ComputeDiff(old, cur) ==
  IF Cardinality(DOMAIN old.Nodes) = 0
    THEN [Type |-> "full", Stats |-> cur.Stats, Changed |-> {}, New |-> {}, Gone |-> {}]
    ELSE
      LET new == (DOMAIN cur.Nodes) \ (DOMAIN old.Nodes)
          changed == {NodeDiff(cur.Nodes[id]) :
                        id \in {i \in (DOMAIN cur.Nodes) \cap (DOMAIN old.Nodes) :
                                  \/ old.Nodes[i].IsOnline # cur.Nodes[i].IsOnline
                                  \/ old.Nodes[i].Clients # cur.Nodes[i].Clients
                                  \/ old.Nodes[i].LoadAvg # cur.Nodes[i].LoadAvg
                                  \/ old.Nodes[i].MemUsage # cur.Nodes[i].MemUsage}}
          gone == (DOMAIN old.Nodes) \ (DOMAIN cur.Nodes)
      IN IF changed = {} /\ new = {} /\ gone = {}
           THEN [Type |-> "stats", Stats |-> cur.Stats, Changed |-> {}, New |-> {},
                 Gone |-> {}]
           ELSE [Type |-> "diff", Stats |-> cur.Stats, Changed |-> changed,
                 New |-> new, Gone |-> gone]

(***************************************************************************)
(* URLs.  A URL is kept in the form url.Parse gives it: scheme, host and   *)
(* the segments of its path.                                               *)
(***************************************************************************)
URL(scheme, host, path) == [scheme |-> scheme, host |-> host, path |-> path]

\* the empty string
NoURL == URL("", "", <<>>)

\* u + "/" + seg
URLJoin(u, seg) == [u EXCEPT !.path = Append(@, seg)]

\* strings.TrimSuffix(u, "/")
TrimSlash(u) ==
  IF Len(u.path) > 0 /\ u.path[Len(u.path)] = ""
    THEN [u EXCEPT !.path = SubSeq(@, 1, Len(@) - 1)] ELSE u

\* discover.go: const FFDirectoryURL
FFDirectoryURL == URL("https", "api.freifunk.net", <<"data", "ffSummarizedDir.json">>)

(***************************************************************************)
(* internal/urlcheck                                                       *)
(***************************************************************************)
\* net.ParseIP on the address strings of the model: the bytes of the address
\* (4 for IPv4, 16 for IPv6), <<>> for nil
ParseIP(host) ==
  CASE host = "0.0.0.0" -> <<0, 0, 0, 0>>
    [] host = "10.0.0.1" -> <<10, 0, 0, 1>>
    [] host = "10.0.0.5" -> <<10, 0, 0, 5>>
    [] host = "100.100.100.200" -> <<100, 100, 100, 200>>
    [] host = "127.0.0.1" -> <<127, 0, 0, 1>>
    [] host = "169.254.169.254" -> <<169, 254, 169, 254>>
    [] host = "172.16.0.1" -> <<172, 16, 0, 1>>
    [] host = "172.32.0.1" -> <<172, 32, 0, 1>>
    [] host = "192.168.1.1" -> <<192, 168, 1, 1>>
    [] host = "224.0.0.1" -> <<224, 0, 0, 1>>
    [] host = "203.0.113.10" -> <<203, 0, 113, 10>>
    [] host = "203.0.113.11" -> <<203, 0, 113, 11>>
    [] host = "203.0.113.20" -> <<203, 0, 113, 20>>
    [] host = "203.0.113.30" -> <<203, 0, 113, 30>>
    [] host = "203.0.113.40" -> <<203, 0, 113, 40>>
    [] host = "::1" -> <<0, 0, 0, 0, 0, 0, 0, 0, 0, 0, 0, 0, 0, 0, 0, 1>>
    [] host = "fd00::1" -> <<253, 0, 0, 0, 0, 0, 0, 0, 0, 0, 0, 0, 0, 0, 0, 1>>
    [] host = "fe80::1" -> <<254, 128, 0, 0, 0, 0, 0, 0, 0, 0, 0, 0, 0, 0, 0, 1>>
    [] host = "2001:db8::1" -> <<32, 1, 13, 184, 0, 0, 0, 0, 0, 0, 0, 0, 0, 0, 0, 1>>
    [] OTHER -> <<>>

\* net.ParseIP(host) != nil
IsIPLiteral(host) == ParseIP(host) # <<>>

\* urlcheck.isPrivateIP: ip.IsLoopback() || ip.IsPrivate() ||
\* ip.IsLinkLocalUnicast() || ip.IsLinkLocalMulticast() || ip.IsUnspecified()
isPrivateIP(ip) ==
  IF Len(ip) = 4
    THEN \/ ip[1] = 127
         \/ ip[1] = 10
         \/ ip[1] = 172 /\ ip[2] \in 16..31
         \/ ip[1] = 192 /\ ip[2] = 168
         \/ ip[1] = 169 /\ ip[2] = 254
         \/ ip[1] = 224 /\ ip[2] = 0 /\ ip[3] = 0
         \/ \A i \in 1..4 : ip[i] = 0
    ELSE \/ ip[16] = 1 /\ \A i \in 1..15 : ip[i] = 0
         \/ ip[1] \in {252, 253}
         \/ ip[1] = 254 /\ ip[2] \in 128..191
         \/ ip[1] = 255 /\ ip[2] % 16 = 2
         \/ \A i \in 1..16 : ip[i] = 0

\* net.LookupHost: the addresses of the host names of the model (none: lookup error)
LookupHost(host) ==
  CASE host = "map.x.example" -> {"203.0.113.10"}
    [] host = "map.y.example" -> {"203.0.113.20"}
    [] host = "map.z.example" -> {"203.0.113.30"}
    [] host = "stats.x.example" -> {"203.0.113.11"}
    [] host = "intranet.y.example" -> {"10.0.0.5"}
    [] host = "localhost" -> {"127.0.0.1", "::1"}
    [] host = "rebind.example" -> {"203.0.113.40", "192.168.1.1"}
    [] host = "metadata.google.internal" -> {"169.254.169.254"}
    [] OTHER -> {}

\* IsSafeURL without the blocklist of metadata endpoints
IsSafeURLNoBlocklist(u) ==
  /\ u.scheme \in {"http", "https"}
  /\ u.host # ""
  /\ IF IsIPLiteral(u.host) THEN ~isPrivateIP(ParseIP(u.host))
     ELSE \A addr \in LookupHost(u.host) :
            ~(IsIPLiteral(addr) /\ isPrivateIP(ParseIP(addr)))

IsSafeURL(u) ==
  /\ u.scheme \in {"http", "https"}
  /\ u.host # ""
  /\ u.host \notin {"169.254.169.254", "metadata.google.internal", "100.100.100.200"}
  /\ IF IsIPLiteral(u.host) THEN ~isPrivateIP(ParseIP(u.host))
     ELSE \A addr \in LookupHost(u.host) :
            ~(IsIPLiteral(addr) /\ isPrivateIP(ParseIP(addr)))

(***************************************************************************)
(* internal/federation: discovery.  Every operator returns, next to its    *)
(* result, req: the URLs it built a request for, and ok: the URLs it       *)
(* passed through IsSafeURL with an accepting answer.                      *)
(***************************************************************************)
Community(key, name, meshviewerURLs, grafanaURL) ==
  [Key |-> key, Name |-> name, MeshviewerURLs |-> meshviewerURLs,
   NodelistURLs |-> <<>>, GrafanaURL |-> grafanaURL, AllKeys |-> <<key>>]

CommunitySource(key, keys, dataURL, dataType, grafanaURL, mapURLs) ==
  [CommunityKey |-> key, CommunityKeys |-> keys, DataURL |-> dataURL,
   DataType |-> dataType, GrafanaURL |-> grafanaURL, MapURLs |-> mapURLs]

GrafanaInfo(baseURL, dataPaths) ==
  [BaseURL |-> baseURL, DashboardURL |-> NoURL, DatasourceID |-> 0,
   Database |-> "", DataPaths |-> dataPaths]

\* ProbeURL: IsSafeURL first; then a HEAD request that must answer 200, not HTML
ProbeURL(world, u) ==
  IF ~IsSafeURL(u) THEN [found |-> FALSE, req |-> {}, ok |-> {}]
  ELSE [found |-> u \in world.alive, req |-> {u}, ok |-> {u}]

\* DeriveMeshviewerBases: the URL up to the last "/data/" and up to the last "/"
DeriveMeshviewerBases(u) ==
  LET dataIdx == {i \in 1..(Len(u.path) - 1) : u.path[i] = "data"}
      last == CHOOSE i \in dataIdx : \A j \in dataIdx : j <= i
      b1 == IF u # NoURL /\ dataIdx # {}
              THEN <<[u EXCEPT !.path = SubSeq(@, 1, last - 1)]>> ELSE <<>>
      base == [u EXCEPT !.path = SubSeq(@, 1, Len(@) - 1)]
  IN IF u # NoURL /\ Len(u.path) > 0 /\ (b1 = <<>> \/ b1[1] # base)
       THEN Append(b1, base) ELSE b1

RECURSIVE CollectBasesOf(_, _)
CollectBasesOf(bases, urls) ==
  IF urls = <<>> THEN bases
  ELSE CollectBasesOf(AppendUniqueAll(bases, DeriveMeshviewerBases(Head(urls))),
                      Tail(urls))

CollectMapBases(c) == CollectBasesOf(CollectBasesOf(<<>>, c.MeshviewerURLs), c.NodelistURLs)

\* ResolveBestSources, the goroutine of one community.  The communities of
\* the model list meshviewer URLs only, so of the probe stages only the
\* first ("probe ALL meshviewer URLs") finds anything to probe; no probe of
\* the model times out, so deadHosts stays empty.
RECURSIVE ResolveMeshviewerURLs(_, _, _, _)
ResolveMeshviewerURLs(world, c, urls, out) ==
  IF urls = <<>> THEN out
  ELSE LET u == Head(urls)
           pr == ProbeURL(world, u)
           dtype == IF Len(u.path) > 0 /\ u.path[Len(u.path)] = "nodes.json"
                      THEN "nodes" ELSE "meshviewer"
           src == CommunitySource(c.Key, c.AllKeys, u, dtype, c.GrafanaURL,
                                  CollectMapBases(c))
       IN ResolveMeshviewerURLs(world, c, Tail(urls),
            [sources |-> IF pr.found THEN Append(out.sources, src) ELSE out.sources,
             req |-> out.req \cup pr.req, ok |-> out.ok \cup pr.ok])

RECURSIVE ResolveAll(_, _, _)
ResolveAll(world, communities, out) ==
  IF communities = <<>> THEN out
  ELSE ResolveAll(world, Tail(communities),
         ResolveMeshviewerURLs(world, Head(communities),
                               Head(communities).MeshviewerURLs, out))

\* urlCommunities[src.DataURL]: the keys of every source with that URL
RECURSIVE URLCommunities(_, _, _)
URLCommunities(sources, dataURL, keys) ==
  IF sources = <<>> THEN keys
  ELSE LET src == Head(sources)
       IN URLCommunities(Tail(sources), dataURL,
            IF src.DataURL = dataURL
              THEN AppendUnique(AppendUniqueAll(keys, src.CommunityKeys), src.CommunityKey)
              ELSE keys)

\* de-duplicate by data URL: the first source of a URL stays, with all keys
RECURSIVE Dedupe(_, _, _)
Dedupe(sources, all, out) ==
  IF sources = <<>> THEN out
  ELSE LET src == Head(sources)
       IN Dedupe(Tail(sources), all,
            IF \E i \in 1..Len(out) : out[i].DataURL = src.DataURL THEN out
            ELSE Append(out, [src EXCEPT
                   !.CommunityKeys = URLCommunities(all, src.DataURL, <<>>)]))

\* arrival: the communities in the order their goroutines deliver results
ResolveBestSources(world, arrival) ==
  LET r == ResolveAll(world, arrival, [sources |-> <<>>, req |-> {}, ok |-> {}])
  IN [r EXCEPT !.sources = Dedupe(r.sources, r.sources, <<>>)]

(***************************************************************************)
(* internal/federation/grafana.go                                          *)
(***************************************************************************)
NoInfo == GrafanaInfo(NoURL, <<>>)

\* first loop of discoverGrafanaForSource: GET base + "/config.json"
RECURSIVE ProbeConfigJSON(_, _, _)
ProbeConfigJSON(world, bases, req) ==
  IF bases = <<>> THEN [info |-> NoInfo, req |-> req]
  ELSE LET u == URLJoin(Head(bases), "config.json")
           info == MapGet(world.config, u, NoInfo)
       IN IF info.BaseURL # NoURL THEN [info |-> info, req |-> req \cup {u}]
          ELSE ProbeConfigJSON(world, Tail(bases), req \cup {u})

\* second loop: GET base + "/" and read the inline configuration
RECURSIVE ProbeInlineConfig(_, _, _)
ProbeInlineConfig(world, bases, req) ==
  IF bases = <<>> THEN [info |-> NoInfo, req |-> req]
  ELSE LET u == URLJoin(Head(bases), "")
           info == MapGet(world.inline, u, NoInfo)
       IN IF info.BaseURL # NoURL \/ Len(info.DataPaths) > 0
            THEN [info |-> info, req |-> req \cup {u}]
            ELSE ProbeInlineConfig(world, Tail(bases), req \cup {u})

discoverGrafanaForSource(world, src) ==
  LET baseURLs == AppendUniqueAll(AppendUniqueAll(<<>>, DeriveMeshviewerBases(src.DataURL)),
                                  src.MapURLs)
      c == ProbeConfigJSON(world, baseURLs, {})
      i == ProbeInlineConfig(world, baseURLs, c.req)
  IN IF c.info.BaseURL # NoURL THEN c ELSE i

\* cache[c.Key] = GrafanaInfo{BaseURL: c.GrafanaURL} for the communities that name one
RECURSIVE SeedGrafanaCache(_, _)
SeedGrafanaCache(cache, communities) ==
  IF communities = <<>> THEN cache
  ELSE LET c == Head(communities)
       IN SeedGrafanaCache(
            IF c.GrafanaURL # NoURL /\ c.Key \notin DOMAIN cache
              THEN MapPut(cache, c.Key, GrafanaInfo(c.GrafanaURL, <<>>)) ELSE cache,
            Tail(communities))

\* needDiscovery: the sources without a usable entry, then the communities
\* without a source and without an entry that have a map base
NeedDiscovery(cache, sources, communities) ==
  LET fromSources ==
        SelectSeq(sources, LAMBDA src :
          \/ src.CommunityKey \notin DOMAIN cache
          \/ /\ cache[src.CommunityKey].BaseURL # NoURL
             /\ cache[src.CommunityKey].DashboardURL = NoURL)
      existingKeys == {sources[i].CommunityKey : i \in 1..Len(sources)}
      rest == SelectSeq(communities, LAMBDA c :
                /\ c.Key \notin existingKeys
                /\ c.Key \notin DOMAIN cache
                /\ Len(CollectMapBases(c)) > 0)
  IN fromSources \o
     [i \in 1..Len(rest) |->
        CommunitySource(rest[i].Key, rest[i].AllKeys, NoURL, "", NoURL,
                        CollectMapBases(rest[i]))]

RECURSIVE DiscoverEach(_, _, _)
DiscoverEach(world, need, out) ==
  IF need = <<>> THEN out
  ELSE DiscoverEach(world, Tail(need),
         Only({[cache |-> IF r.info.BaseURL # NoURL \/ Len(r.info.DataPaths) > 0
                            THEN MapPut(out.cache, Head(need).CommunityKey, r.info)
                            ELSE out.cache,
                req |-> out.req \cup r.req] :
               r \in {discoverGrafanaForSource(world, Head(need))}}))

\* discoverDatasource: GET BaseURL + "/api/datasources"
DatasourceURL(info) == URLJoin(URLJoin(TrimSlash(info.BaseURL), "api"), "datasources")

discoverDatasource(world, info) ==
  LET id == MapGet(world.datasources, DatasourceURL(info), 0)
  IN IF id # 0 THEN [info EXCEPT !.DatasourceID = id, !.Database = "yanic"] ELSE info

\* the entries with a base URL and no datasource id are probed
ProbeDatasources(world, cache, req) ==
  [cache |-> [k \in DOMAIN cache |->
                IF cache[k].BaseURL # NoURL /\ cache[k].DatasourceID = 0
                  THEN discoverDatasource(world, cache[k]) ELSE cache[k]],
   req |-> req \cup {DatasourceURL(cache[k]) :
                       k \in {j \in DOMAIN cache :
                                cache[j].BaseURL # NoURL /\ cache[j].DatasourceID = 0}}]

\* returns the cache.  With nothing in needDiscovery it returns at once;
\* else it goes on to the datasources and writes the cache to
\* grafana_cache.json
DiscoverGrafanaURLs(world, sources, communities, file) ==
  Only({IF NeedDiscovery(seeded, sources, communities) = <<>>
          THEN [cache |-> seeded, req |-> {}, file |-> file]
          ELSE Only({[cache |-> p.cache, req |-> p.req, file |-> p.cache] :
                 p \in {ProbeDatasources(world, d.cache, d.req) :
                   d \in {DiscoverEach(world, NeedDiscovery(seeded, sources, communities),
                                       [cache |-> seeded, req |-> {}])}}}) :
        seeded \in {SeedGrafanaCache(file, communities)}})

(***************************************************************************)
(* Store.DiscoverAndRefresh, between DiscoverCommunities and the           *)
(* assignment of the store's fields                                        *)
(***************************************************************************)
\* grafanaCache[ak] = info for the alias keys that have no entry
RECURSIVE AliasGrafana(_, _)
AliasGrafana(cache, communities) ==
  IF communities = <<>> THEN cache
  ELSE LET c == Head(communities)
           missing == SelectSeq(c.AllKeys, LAMBDA ak : ak \notin DOMAIN cache)
           withAliases ==
             [k \in (DOMAIN cache) \cup SeqToSet(missing) |->
                IF k \in DOMAIN cache THEN cache[k] ELSE cache[c.Key]]
       IN AliasGrafana(IF c.Key \in DOMAIN cache THEN withAliases ELSE cache,
                       Tail(communities))

\* the GrafanaURL of the sources that have none is taken from the cache
FillSourceGrafanaURL(sources, cache) ==
  [i \in 1..Len(sources) |->
     IF sources[i].GrafanaURL = NoURL /\ sources[i].CommunityKey \in DOMAIN cache
       THEN [sources[i] EXCEPT !.GrafanaURL = cache[sources[i].CommunityKey].BaseURL]
       ELSE sources[i]]

\* ... and the GrafanaURL of the communities that have none
FillCommunityGrafanaURL(communities, cache) ==
  [i \in 1..Len(communities) |->
     IF communities[i].GrafanaURL = NoURL /\ communities[i].Key \in DOMAIN cache
       THEN [communities[i] EXCEPT !.GrafanaURL = cache[communities[i].Key].BaseURL]
       ELSE communities[i]]

\* The capacity of AllKeys: DiscoverCommunities makes it with []string{c.Key}
\* and appends one key at a time, and append doubles a full array
RECURSIVE SliceCap(_)
SliceCap(n) == IF n <= 1 THEN 1 ELSE 2 * SliceCap((n + 1) \div 2)

\* CommunityKeys is a slice.  shared[i] names the array behind the keys of
\* source i: the AllKeys array of community arr, of capacity cap, for a
\* source made with CommunityKeys: c.AllKeys; an array of its own else
OwnArray == [arr |-> "", cap |-> 0]

\* sources[idx].CommunityKeys = store.AppendUnique(sources[idx].CommunityKeys, ak):
\* append writes into the array when it has room, and every slice of that
\* array that reaches so far reads the new element; a full array is copied
AppendKey(st, idx, ak) ==
  LET keys == st.sources[idx].CommunityKeys
      n == Len(keys)
      sh == st.shared[idx]
  IN IF \E i \in 1..n : keys[i] = ak THEN st
     ELSE IF sh.arr # "" /\ n < sh.cap
       THEN [st EXCEPT !.sources =
               [j \in 1..Len(st.sources) |->
                  IF j = idx THEN [st.sources[j] EXCEPT !.CommunityKeys = Append(keys, ak)]
                  ELSE IF st.shared[j].arr = sh.arr /\ Len(st.sources[j].CommunityKeys) > n
                    THEN [st.sources[j] EXCEPT !.CommunityKeys[n + 1] = ak]
                    ELSE st.sources[j]]]
       ELSE [st EXCEPT !.sources[idx].CommunityKeys = Append(keys, ak),
                       !.shared[idx] = OwnArray]

RECURSIVE AppendKeys(_, _, _)
AppendKeys(st, idx, aks) ==
  IF aks = <<>> THEN st
  ELSE AppendKeys(AppendKey(st, idx, Head(aks)), idx, Tail(aks))

\* the dataPath entries of one community without a source
AddDataPath(st, c, info, dp) ==
  IF dp.scheme \notin {"http", "https"} THEN st
  ELSE IF \E i \in 1..Len(st.sources) : st.sources[i].DataURL = dp
    THEN LET idx == CHOOSE i \in 1..Len(st.sources) :
                      /\ st.sources[i].DataURL = dp
                      /\ \A j \in (i + 1)..Len(st.sources) : st.sources[j].DataURL # dp
         IN [AppendKeys(st, idx, c.AllKeys) EXCEPT !.existing = @ \cup {c.Key}]
    ELSE [sources |-> Append(st.sources,
                        CommunitySource(c.Key, c.AllKeys, dp, "meshviewer",
                                        info.BaseURL, c.MeshviewerURLs)),
          shared |-> Append(st.shared, [arr |-> c.Key, cap |-> SliceCap(Len(c.AllKeys))]),
          existing |-> st.existing \cup {c.Key}]

RECURSIVE AddDataPaths(_, _, _, _)
AddDataPaths(st, c, info, dps) ==
  IF dps = <<>> THEN st
  ELSE AddDataPaths(AddDataPath(st, c, info, Head(dps)), c, info, Tail(dps))

RECURSIVE AddDataPathSources(_, _, _)
AddDataPathSources(st, communities, cache) ==
  IF communities = <<>> THEN st
  ELSE LET c == Head(communities)
       IN AddDataPathSources(
            IF c.Key \notin st.existing /\ c.Key \in DOMAIN cache
              THEN AddDataPaths(st, c, cache[c.Key], cache[c.Key].DataPaths)
              ELSE st,
            Tail(communities), cache)

\* the sources with those of the dataPath entries, and what is assigned.
\* The keys of a source that ResolveBestSources returned are in an array of
\* their own (urlCommunities).
WithDataPathSources(sources, communities, cache, file, req, ok) ==
  [communities |-> communities,
   sources |-> AddDataPathSources(
                 [sources |-> sources,
                  shared |-> [i \in 1..Len(sources) |-> OwnArray],
                  existing |-> {sources[i].CommunityKey : i \in 1..Len(sources)}],
                 communities, cache).sources,
   grafanaCache |-> cache, file |-> file, req |-> req, ok |-> ok]

\* nothing discovered
NoDiscovery ==
  [communities |-> <<>>, sources |-> <<>>, grafanaCache |-> EmptyMap, file |-> EmptyMap,
   req |-> {}, ok |-> {}]

\* what DiscoverAndRefresh assigns to the store when the directory was read
Discovered(world, arrival, file) ==
  Only({Only({WithDataPathSources(
                 FillSourceGrafanaURL(rg[1].sources, cache),
                 FillCommunityGrafanaURL(world.communities, cache),
                 cache, rg[2].file,
                 {FFDirectoryURL} \cup rg[1].req \cup rg[2].req, rg[1].ok) :
               cache \in {AliasGrafana(rg[2].cache, world.communities)}}) :
          rg \in {<<r, DiscoverGrafanaURLs(world, r.sources, world.communities, file)>> :
                    r \in {ResolveBestSources(world, arrival)}}})

(***************************************************************************)
(* The upstreams of the model: two communities x and y that each report a  *)
(* gateway with the same id and one link to a client (scenario S2), and    *)
(* a directory in which y has moved to addresses the gate must not pass.   *)
(***************************************************************************)
GW == "11:22:33:44:55:66"

UX == URL("https", "map.x.example", <<"data", "meshviewer.json">>)
UY == URL("https", "map.y.example", <<"data", "meshviewer.json">>)
UZ == URL("https", "map.z.example", <<"data", "meshviewer.json">>)
UPrivate == URL("http", "10.0.0.5", <<"meshviewer.json">>)
UMeta == URL("http", "169.254.169.254", <<"latest", "meta-data", "meshviewer.json">>)
StatsX == URL("https", "stats.x.example", <<>>)

CX == Community("x", "X", <<UX>>, StatsX)
CY == Community("y", "Y", <<UY>>, NoURL)
CZ == Community("z", "Z", <<UZ>>, NoURL)
CYMoved == Community("y", "Y", <<UPrivate, UY>>, NoURL)

\* both data URLs answer
WorldS2 ==
  [communities |-> <<CX, CY>>, alive |-> {UX, UY}, config |-> EmptyMap,
   inline |-> EmptyMap, datasources |-> EmptyMap]

\* y's data URLs do not answer; the page at y's map base names a dataPath
WorldDataPath ==
  [communities |-> <<CX, CYMoved>>, alive |-> {UX}, config |-> EmptyMap,
   inline |-> MapPut(EmptyMap, URLJoin(URL("https", "map.y.example", <<>>), ""),
                     GrafanaInfo(NoURL, <<UMeta>>)),
   datasources |-> EmptyMap]

\* a directory with one community, z
WorldZ ==
  [communities |-> <<CZ>>, alive |-> {UZ}, config |-> EmptyMap,
   inline |-> EmptyMap, datasources |-> EmptyMap]

Worlds == {WorldS2, WorldDataPath}

\* the orders in which the community goroutines can deliver their results
Arrivals(world) ==
  {<<world.communities[1], world.communities[2]>>,
   <<world.communities[2], world.communities[1]>>}

DocX1 ==
  MeshviewerData(<<RawNode(GW, "GW-X", TRUE, TRUE, 0, ""),
                   RawNode("c-x", "c-x", TRUE, FALSE, 3, GW)>>,
                 <<RawLink(GW, "c-x")>>)
DocY1 ==
  MeshviewerData(<<RawNode(GW, "GW-Y", TRUE, TRUE, 0, ""),
                   RawNode("c-y", "c-y", TRUE, FALSE, 2, GW)>>,
                 <<RawLink(GW, "c-y")>>)
\* y also reports c-x, a new node c-z, and one link twice
DocY3 ==
  MeshviewerData(<<RawNode(GW, "GW-Y", TRUE, TRUE, 0, ""),
                   RawNode("c-y", "c-y", TRUE, FALSE, 2, GW),
                   RawNode("c-x", "c-x-dup", FALSE, FALSE, 0, GW),
                   RawNode("c-z", "c-z", TRUE, FALSE, 1, GW)>>,
                 <<RawLink(GW, "c-y"), RawLink(GW, "c-y"), RawLink(GW, "c-z")>>)

\* community z: a gateway and a client ...
DocZ1 ==
  MeshviewerData(<<RawNode(GW, "GW-Z", TRUE, TRUE, 0, ""),
                   RawNode("c-1", "c-1", TRUE, FALSE, 3, GW)>>,
                 <<RawLink(GW, "c-1")>>)
\* ... that has more clients
DocZ2 ==
  MeshviewerData(<<RawNode(GW, "GW-Z", TRUE, TRUE, 0, ""),
                   RawNode("c-1", "c-1", TRUE, FALSE, 5, GW)>>,
                 <<RawLink(GW, "c-1")>>)

\* the meshviewer documents a data URL can answer with
Docs(u) ==
  CASE u = UX -> {DocX1}
    [] u = UY -> {DocY1, DocY3}
    [] u = UZ -> {DocZ1, DocZ2}
    [] OTHER -> {}

\* Store.fetchSource: an error (transport, status, parse, unknown data type)
\* or the parsed document.  The sources of the model are of type
\* "meshviewer" (or of a type the switch does not know).
FetchError == [err |-> TRUE, data |-> MeshviewerData(<<>>, <<>>)]

fetchSource(src) ==
  {FetchError} \cup
  (IF src.DataType = "meshviewer"
     THEN {[err |-> FALSE, data |-> d] : d \in Docs(src.DataURL)} ELSE {})

(***************************************************************************)
(* federation_state.json: Store.SaveState and Store.RestoreState           *)
(***************************************************************************)
\* no usable cache file
NoCache == [Communities |-> <<>>, Sources |-> <<>>, NodeCommMap |-> EmptyMap,
            Nodes |-> <<>>, Links |-> <<>>]

\* SaveState converts the nodes of NodeList back to raw nodes
RawOf(n) ==
  [NodeID |-> n.NodeID, Hostname |-> n.Hostname, IsOnline |-> n.IsOnline,
   IsGateway |-> n.IsGateway, Clients |-> n.Clients, LoadAvg |-> n.LoadAvg,
   MemoryUsage |-> n.MemUsage, Gateway |-> n.Gateway, Domain |-> n.Domain]

\* the file after SaveState; nothing is written for a snapshot without nodes
SaveState(file, communities, sources, nodeCommMap, snap) ==
  IF Cardinality(DOMAIN snap.Nodes) = 0 THEN file
  ELSE [Communities |-> communities, Sources |-> sources, NodeCommMap |-> nodeCommMap,
        Nodes |-> [i \in 1..Len(snap.NodeList) |->
                     RawOf(NodeAt(snap.Nodes, snap.NodeList[i]))],
        Links |-> [i \in 1..Len(snap.Links) |->
                     RawLink(snap.Links[i].Source, snap.Links[i].Target)]]

\* RestoreState succeeds
CacheUsable(file) == Len(file.Communities) > 0 /\ Len(file.Sources) > 0

\* a RestoreState that runs the gateway rewrite of the merge on the cached nodes
RestoredSnapshotSuffixedAgain(file) ==
  TagSnapshot(ProcessData(SuffixGateways(MeshviewerData(file.Nodes, file.Links),
                                         file.Communities[1].Key)),
              file.NodeCommMap)

\* the snapshot RestoreState publishes
RestoredSnapshot(file) ==
  TagSnapshot(ProcessData(MeshviewerData(file.Nodes, file.Links)), file.NodeCommMap)

\* the cache files left behind by a run that discovered d and merged m
SavedCache(d, m) ==
  [state |-> SaveState(NoCache, d.communities, d.sources, m.nodeCommMap,
                       TagSnapshot(ProcessData(MeshviewerData(m.Nodes, m.Links)),
                                   m.nodeCommMap)),
   grafana |-> d.file]

\* the cache files an earlier run over WorldS2 left behind
CacheS2 ==
  Only({SavedCache(d, MergeSuccess(MergeSuccess(MergeStart, d.sources[1], DocX1),
                                   d.sources[2], DocY1)) :
          d \in {Discovered(WorldS2, <<CX, CY>>, EmptyMap)}})

\* ... and an earlier run over WorldZ
CacheZ ==
  Only({SavedCache(d, MergeSuccess(MergeStart, d.sources[1], DocZ1)) :
          d \in {Discovered(WorldZ, <<CZ>>, EmptyMap)}})

(***************************************************************************)
(* config.Config.DomainNames                                               *)
(***************************************************************************)
\* "domainNames" of config.json, as config.Load read it
ConfigDomainNames == MapPut(EmptyMap, "ffmuc_muc", "Muenchen")

\* domainNames := make(map[string]string); every community's key -> name,
\* then every entry of fs.Cfg.DomainNames on top
DomainNamesOf(communities, cfgNames) ==
  [k \in {communities[i].Key : i \in 1..Len(communities)} \cup DOMAIN cfgNames |->
     IF k \in DOMAIN cfgNames THEN cfgNames[k]
     ELSE communities[CHOOSE i \in 1..Len(communities) :
                        /\ communities[i].Key = k
                        /\ \A j \in (i + 1)..Len(communities) :
                             communities[j].Key # k].Name]

(***************************************************************************)
(* The refreshers: the startup refresh of main.go ("bg": the goroutine     *)
(* started after RestoreState, or the synchronous call when there is no    *)
(* cache) and Store.RunRefreshLoop ("loop")                                *)
(***************************************************************************)
\* where a refresher goes when its attempt is over
Rest(p) == IF p = "bg" THEN "done" ELSE "idle"

\* the locals of a finished attempt are dead
Leave(p) ==
  /\ fpc' = [fpc EXCEPT ![p] = Rest(p)]
  /\ fold' = [fold EXCEPT ![p] = 0]
  /\ fsrcs' = [fsrcs EXCEPT ![p] = <<>>]
  /\ facc' = [facc EXCEPT ![p] = MergeStart]
  /\ fgot' = [fgot EXCEPT ![p] = <<>>]
  /\ fptr' = [fptr EXCEPT ![p] = 0]
  /\ fprev' = [fprev EXCEPT ![p] = 0]

\* main.go: old := fedStore.GetSnapshot() of the background goroutine
Background_GetSnapshot ==
  /\ fpc["bg"] = "start"
  /\ fold' = [fold EXCEPT !["bg"] = snapshot]
  /\ fpc' = [fpc EXCEPT !["bg"] = "discover"]
  /\ UNCHANGED <<unitVars, domVars, fedVars, fsrcs, facc, fgot, fptr, fprev, fticks, clientVars,
                 hubVars, handlerVars, bcastVars, histVars>>

\* go fedStore.RunRefreshLoop comes after the synchronous initial discovery
LoopRunning == startup = "cached" \/ fpc["bg"] = "done"

\* case <-discoveryTicker.C: old := fs.GetSnapshot()
Loop_DiscoveryTick ==
  /\ fpc["loop"] = "idle"
  /\ LoopRunning
  /\ fticks > 0
  /\ fticks' = fticks - 1
  /\ fold' = [fold EXCEPT !["loop"] = snapshot]
  /\ fpc' = [fpc EXCEPT !["loop"] = "discover"]
  /\ UNCHANGED <<unitVars, domVars, fedVars, fsrcs, facc, fgot, fptr, fprev, clientVars,
                 hubVars, handlerVars, bcastVars, histVars>>

\* case <-dataTicker.C: old := fs.GetSnapshot()
Loop_DataTick ==
  /\ fpc["loop"] = "idle"
  /\ LoopRunning
  /\ fticks > 0
  /\ fticks' = fticks - 1
  /\ fold' = [fold EXCEPT !["loop"] = snapshot]
  /\ fpc' = [fpc EXCEPT !["loop"] = "refresh"]
  /\ UNCHANGED <<unitVars, domVars, fedVars, fsrcs, facc, fgot, fptr, fprev, clientVars,
                 hubVars, handlerVars, bcastVars, histVars>>

(***************************************************************************)
(* Store.DiscoverAndRefresh                                                *)
(***************************************************************************)
\* DiscoverCommunities returns an error: DiscoverAndRefresh returns it, and
\* the caller logs it and returns (main.go) or continues (RunRefreshLoop)
\* an error path that clears the list of communities
DiscoverAndRefresh_ErrorClears(p) ==
  /\ fpc[p] = "discover"
  /\ requests' = requests \cup {FFDirectoryURL}
  /\ fsCommunities' = <<>>
  /\ Leave(p)
  /\ UNCHANGED <<unitVars, domVars, startup, fsSources, fsGrafanaCache, fsNodeCommMap, heap,
                 snapshot, published, disk, grafanaFile, gateAccepted, fticks,
                 clientVars, hubVars, handlerVars, bcastVars, histVars>>

DiscoverAndRefresh_Error(p) ==
  /\ fpc[p] = "discover"
  /\ requests' = requests \cup {FFDirectoryURL}
  /\ Leave(p)
  /\ UNCHANGED <<unitVars, domVars, startup, fsCommunities, fsSources, fsGrafanaCache, fsNodeCommMap, heap,
                 snapshot, published, disk, grafanaFile, gateAccepted, fticks,
                 clientVars, hubVars, handlerVars, bcastVars, histVars>>

\* the directory was read: probe, discover the metadata, add the dataPath
\* sources, and assign the three fields under fedMu
DiscoverAndRefresh_Assign(p, world, arrival) ==
  /\ fpc[p] = "discover"
  /\ LET d == Discovered(world, arrival, grafanaFile) IN
       /\ fsCommunities' = d.communities
       /\ fsSources' = d.sources
       /\ fsGrafanaCache' = d.grafanaCache
       /\ grafanaFile' = d.file
       /\ requests' = requests \cup d.req
       /\ gateAccepted' = gateAccepted \cup d.ok
  /\ fpc' = [fpc EXCEPT ![p] = "refresh"]
  /\ UNCHANGED <<unitVars, domVars, startup, fsNodeCommMap, heap, snapshot, published, disk,
                 fold, fsrcs, facc, fgot, fptr, fprev, fticks,
                 clientVars, hubVars, handlerVars, bcastVars, histVars>>

(***************************************************************************)
(* Store.RefreshAllSources                                                 *)
(***************************************************************************)
\* the orders in which the results of n fetch goroutines can arrive
Arrival(n) == {o \in [1..n -> 1..n] : \A i, j \in 1..n : o[i] = o[j] => i = j}

\* one result for every source
FetchAll(sources) ==
  {rs \in [1..Len(sources) -> UNION {fetchSource(sources[i]) : i \in 1..Len(sources)}] :
     \A i \in 1..Len(sources) : rs[i] \in fetchSource(sources[i])}

\* "for r := range ch": the results are merged in the order of their arrival
RECURSIVE MergeAll(_, _, _, _)
MergeAll(st, sources, order, results) ==
  IF order = <<>> THEN st
  ELSE LET i == Head(order)
           r == results[i]
       IN MergeAll(
            IF r.err
              THEN [st EXCEPT !.acc = MergeFailure(@)]
              ELSE [acc |-> MergeSuccess(st.acc, sources[i], r.data),
                    got |-> Append(st.got, [src |-> sources[i], data |-> r.data])],
            sources, Tail(order), results)

\* sources := fs.GetSources() ("no data sources available" when there is
\* none); one fetchSource goroutine per source; the merge loop over their
\* results.  merged and nodeCommMap are known to this call only.
RefreshAllSources_Merge(p, order, results) ==
  /\ fpc[p] = "refresh"
  /\ order \in Arrival(Len(fsSources))
  /\ results \in FetchAll(fsSources)
  /\ IF Len(fsSources) = 0
       THEN Leave(p) /\ UNCHANGED <<requests, heap>>
       ELSE LET st == MergeAll([acc |-> MergeStart, got |-> <<>>], fsSources, order,
                               results) IN
            /\ fsrcs' = [fsrcs EXCEPT ![p] = fsSources]
            /\ facc' = [facc EXCEPT ![p] = st.acc]
            /\ fgot' = [fgot EXCEPT ![p] = st.got]
            /\ requests' = requests \cup
                             {fsSources[i].DataURL : i \in 1..Len(fsSources)}
            /\ fpc' = [fpc EXCEPT ![p] = "domains"]
            /\ UNCHANGED <<fold, fptr, fprev, heap>>
  /\ UNCHANGED <<unitVars, domVars, startup, fsCommunities, fsSources, fsGrafanaCache, fsNodeCommMap,
                 snapshot, published, disk, grafanaFile, gateAccepted, fticks,
                 clientVars, hubVars, handlerVars, bcastVars, histVars>>

\* communities := fs.GetCommunities(); the augmented map is built;
\* origDomains := fs.Cfg.DomainNames; fs.Cfg.DomainNames = domainNames.
\* No lock is held.
RefreshAllSources_DomainNames(p) ==
  /\ fpc[p] = "domains"
  /\ forig' = [forig EXCEPT ![p] = cfgDomainNames]
  /\ cfgDomainNames' = DomainNamesOf(fsCommunities, cfgDomainNames)
  /\ fpc' = [fpc EXCEPT ![p] = "process"]
  /\ UNCHANGED <<unitVars, fedVars, fold, fsrcs, facc, fgot, fptr, fprev, fticks,
                 clientVars, hubVars, handlerVars, bcastVars, histVars>>

\* snap := fs.ProcessData(merged); fs.Cfg.DomainNames = origDomains.  The
\* new snapshot object is known to this call only.  The nodes of the model
\* carry no DomainName and the stats no Domains.
RefreshAllSources_ProcessData(p) ==
  /\ fpc[p] = "process"
  /\ heap' = Append(heap, ProcessData(MeshviewerData(facc[p].Nodes, facc[p].Links)))
  /\ fptr' = [fptr EXCEPT ![p] = Len(heap) + 1]
  /\ cfgDomainNames' = forig[p]
  /\ forig' = [forig EXCEPT ![p] = EmptyMap]
  /\ fpc' = [fpc EXCEPT ![p] = "tag"]
  /\ UNCHANGED <<unitVars, startup, fsCommunities, fsSources, fsGrafanaCache, fsNodeCommMap,
                 snapshot, published, disk, grafanaFile, requests, gateAccepted,
                 fold, fsrcs, facc, fgot, fprev, fticks,
                 clientVars, hubVars, handlerVars, bcastVars, histVars>>

\* the tagging loop writes into the nodes and the stats of snap, then
\* fs.nodeCommMap = nodeCommMap under fedMu
RefreshAllSources_Tag(p) ==
  /\ fpc[p] = "tag"
  /\ heap' = [heap EXCEPT ![fptr[p]] = TagSnapshot(@, facc[p].nodeCommMap)]
  /\ fsNodeCommMap' = facc[p].nodeCommMap
  /\ fpc' = [fpc EXCEPT ![p] = "publish"]
  /\ UNCHANGED <<unitVars, domVars, startup, fsCommunities, fsSources, fsGrafanaCache,
                 snapshot, published, disk, grafanaFile, requests, gateAccepted,
                 fold, fsrcs, facc, fgot, fptr, fprev, fticks,
                 clientVars, hubVars, handlerVars, bcastVars, histVars>>

\* fs.SetSnapshot(snap): the reference is swapped under the write lock
\* a publication that comes before the tagging loop
RefreshAllSources_SetSnapshotUntagged(p) ==
  /\ fpc[p] = "tag"
  /\ snapshot # fptr[p]
  /\ snapshot' = fptr[p]
  /\ published' = published \cup {fptr[p]}
  /\ UNCHANGED <<unitVars, domVars, startup, fsCommunities, fsSources, fsGrafanaCache, fsNodeCommMap, heap,
                 disk, grafanaFile, requests, gateAccepted,
                 refVars, clientVars, hubVars, handlerVars, bcastVars, histVars>>

RefreshAllSources_SetSnapshot(p) ==
  /\ fpc[p] = "publish"
  /\ fprev' = [fprev EXCEPT ![p] = snapshot]
  /\ snapshot' = fptr[p]
  /\ published' = published \cup {fptr[p]}
  /\ fpc' = [fpc EXCEPT ![p] = "save"]
  /\ UNCHANGED <<unitVars, domVars, startup, fsCommunities, fsSources, fsGrafanaCache, fsNodeCommMap, heap,
                 disk, grafanaFile, requests, gateAccepted,
                 fold, fsrcs, facc, fgot, fptr, fticks,
                 clientVars, hubVars, handlerVars, bcastVars, histVars>>

\* fs.SaveState(); return nil.  The synchronous initial call of main.go is
\* over here; the other callers go on to the diff.
RefreshAllSources_SaveState(p) ==
  /\ fpc[p] = "save"
  /\ disk' = SaveState(disk, fsCommunities, fsSources, fsNodeCommMap, heap[snapshot])
  /\ IF p = "bg" /\ startup = "nocache"
       THEN Leave(p)
       ELSE /\ fpc' = [fpc EXCEPT ![p] = "diff"]
            /\ UNCHANGED <<fold, fsrcs, facc, fgot, fptr, fprev>>
  /\ UNCHANGED <<unitVars, domVars, startup, fsCommunities, fsSources, fsGrafanaCache, fsNodeCommMap, heap,
                 snapshot, published, grafanaFile, requests, gateAccepted, fticks,
                 clientVars, hubVars, handlerVars, bcastVars, histVars>>

\* snap := fs.GetSnapshot(); diff := store.ComputeDiff(old, snap); hub.Broadcast(diff)
Refresher_Broadcast(p) ==
  /\ fpc[p] = "diff"
  /\ Broadcast_Call(p, ComputeDiff(heap[fold[p]], heap[snapshot]))
  /\ fpc' = [fpc EXCEPT ![p] = "broadcast"]
  /\ UNCHANGED <<unitVars, domVars, fedVars, fold, fsrcs, facc, fgot, fptr, fprev, fticks, clientVars>>

\* hub.Broadcast has returned
Refresher_Return(p) ==
  /\ fpc[p] = "broadcast"
  /\ bpc[p] = "idle"
  /\ Leave(p)
  /\ UNCHANGED <<unitVars, domVars, fedVars, fticks, clientVars, hubVars, handlerVars, bcastVars, histVars>>

(***************************************************************************)
(* The browser (web/app.js) and the handler that serves its loadData()     *)
(***************************************************************************)
\* the handler whose client is followed
Browser == 1

\* nodeMap after loadData(): the nodes of /api/nodes by id, with the fields
\* applySSEUpdate patches
\* the element of the list that nodes.forEach stores last under the id
LastEntry(list, id) ==
  list[CHOOSE i \in 1..Len(list) :
         list[i].NodeID = id /\ \A j \in (i + 1)..Len(list) : list[j].NodeID # id]

ViewNode(n) ==
  [is_online |-> n.IsOnline, clients |-> n.Clients, load_avg |-> n.LoadAvg,
   mem_usage |-> n.MemUsage]

ViewOf(snap) ==
  [id \in {snap.NodeList[i].NodeID : i \in 1..Len(snap.NodeList)} |->
     ViewNode(NodeAt(snap.Nodes, LastEntry(snap.NodeList, id)))]

\* update.changed.forEach: nodes the map does not hold are ignored
PatchChanged(nodeMap, changed) ==
  [id \in DOMAIN nodeMap |->
     IF \E d \in changed : d.NodeID = id
       THEN LET d == CHOOSE d \in changed : d.NodeID = id
            IN [is_online |-> d.IsOnline, clients |-> d.Clients,
                load_avg |-> d.LoadAvg, mem_usage |-> d.MemUsage]
       ELSE nodeMap[id]]

\* handleNodes: snap := s.GetSnapshot(), for the fetch of loadData()
API_Nodes ==
  /\ cload = "wanted"
  /\ rsnap' = snapshot
  /\ cload' = "fetched"
  /\ UNCHANGED <<unitVars, domVars, fedVars, refVars, view, capplied, hubVars, handlerVars, bcastVars,
                 histVars>>

\* loadData() after the await: nodeMap is rebuilt from the response
Client_LoadData ==
  /\ cload = "fetched"
  /\ view' = ViewOf(heap[rsnap])
  /\ cload' = "none"
  /\ UNCHANGED <<unitVars, domVars, fedVars, refVars, rsnap, capplied, hubVars, handlerVars, bcastVars,
                 histVars>>

\* sseSource.onmessage: applySSEUpdate(update) for the next frame
Client_Apply ==
  /\ capplied < Len(received[Browser])
  /\ capplied' = capplied + 1
  /\ LET update == received[Browser][capplied + 1].upd IN
       IF update.Type = "full" \/ update.New # {} \/ update.Gone # {}
         THEN cload' = "wanted" /\ view' = view
         ELSE view' = PatchChanged(view, update.Changed) /\ cload' = cload
  /\ UNCHANGED <<unitVars, domVars, fedVars, refVars, rsnap, hubVars, handlerVars, bcastVars, histVars>>

(***************************************************************************)
(* The store after startup                                                 *)
(***************************************************************************)
\* RestoreState succeeded: the fields and the snapshot come from the cache files
InitStoreRestored(cache) ==
  /\ startup = "cached"
  /\ disk = cache.state
  /\ grafanaFile = cache.grafana
  /\ fsCommunities = cache.state.Communities
  /\ fsSources = cache.state.Sources
  /\ fsNodeCommMap = cache.state.NodeCommMap
  /\ fsGrafanaCache = cache.grafana
  /\ heap = <<EmptySnapshot, RestoredSnapshot(cache.state)>>
  /\ cfgDomainNames = ConfigDomainNames
  /\ snapshot = 2
  /\ published = {1, 2}
  /\ requests = {}
  /\ gateAccepted = {}

\* no cache: NewStore only
InitStoreNoCache ==
  /\ startup = "nocache"
  /\ disk = NoCache
  /\ grafanaFile = EmptyMap
  /\ fsCommunities = <<>>
  /\ fsSources = <<>>
  /\ fsNodeCommMap = EmptyMap
  /\ fsGrafanaCache = EmptyMap
  /\ heap = <<EmptySnapshot>>
  /\ cfgDomainNames = ConfigDomainNames
  /\ snapshot = 1
  /\ published = {1}
  /\ requests = {}
  /\ gateAccepted = {}

InitLocals ==
  /\ fold = [p \in Procs |-> 0]
  /\ fsrcs = [p \in Procs |-> <<>>]
  /\ facc = [p \in Procs |-> MergeStart]
  /\ fgot = [p \in Procs |-> <<>>]
  /\ fptr = [p \in Procs |-> 0]
  /\ fprev = [p \in Procs |-> 0]
  /\ forig = [p \in Procs |-> EmptyMap]

\* the startup refresh is about to run: in its goroutine after a restore,
\* else inside main before the loop is started
InitRefreshers ==
  /\ fpc = [p \in Procs |-> IF p = "loop" THEN "idle"
                            ELSE IF startup = "cached" THEN "start" ELSE "discover"]
  /\ InitLocals

\* a browser that has just opened the page: loadData() is called
InitBrowserOpens ==
  /\ rsnap = 0
  /\ view = EmptyMap
  /\ cload = "wanted"
  /\ capplied = 0

\* no function is called on its own
InitGateQuiet ==
  /\ gpc = "idle"
  /\ gurl = NoURL
  /\ gsafe = FALSE

InitMetricsQuiet ==
  /\ cfg = [Federation |-> TRUE, GrafanaURL |-> NoURL]
  /\ mpc = "idle"
  /\ mreq = [path |-> <<"">>, metric |-> "", duration |-> ""]
  /\ mup = EmptyMap
  /\ mresp = [status |-> 0, cacheControl |-> "", results |-> <<>>]
  /\ mqueries = <<>>

InitDiffQuiet ==
  /\ dpc = "idle"
  /\ dold = EmptySnapshot
  /\ dcur = EmptySnapshot
  /\ dupd = [Type |-> "", Stats |-> EmptyStats, Changed |-> {}, New |-> {}, Gone |-> {}]

InitBuildQuiet ==
  /\ ppc = "idle"
  /\ praw = MeshviewerData(<<>>, <<>>)
  /\ psnap = EmptySnapshot

InitResolveQuiet ==
  /\ rpc = "idle"
  /\ rworld = WorldZ
  /\ rarrival = <<>>
  /\ rout = NoDiscovery

InitCollapseQuiet ==
  /\ kpc = "idle"
  /\ kdir = EmptyMap
  /\ korder = <<>>
  /\ kout = <<>>

InitGrafanaQuiet ==
  /\ gruns = 0
  /\ grworld = WorldZ
  /\ grprev = EmptyMap
  /\ grfile = EmptyMap
  /\ grout = [cache |-> EmptyMap, req |-> {}, file |-> EmptyMap]

InitOriginalQuiet ==
  /\ opc = "idle"
  /\ osrcs = <<>>
  /\ odocs = <<>>
  /\ omap = EmptyMap
  /\ oids = EmptyMap

InitIngestQuiet ==
  /\ ipc = "idle"
  /\ imode = "single"
  /\ itype = "meshviewer"
  /\ ifile = <<>>
  /\ isnap = EmptySnapshot

InitShutdownQuiet ==
  /\ mainpc = "serving"
  /\ ctxDone = FALSE
  /\ loopReturned = FALSE

InitLocksQuiet ==
  /\ lpc = <<>>
  /\ lscript = <<>>
  /\ lkWriter = <<>>
  /\ lkReaders = <<>>
  /\ lkPending = <<>>

InitFanoutQuiet ==
  /\ fanCfg = <<>>
  /\ fanCaller = "idle"
  /\ fanSpawned = 0
  /\ fanW = <<>>
  /\ fanLeft = <<>>
  /\ fanSem = 0
  /\ fanCh = <<>>
  /\ fanClosed = 0
  /\ fanCloser = "unborn"
  /\ fanCollected = <<>>
  /\ fanPanic = FALSE

InitProbeQuiet ==
  /\ ppass = 0
  /\ pphase = "idle"
  /\ pworld = <<>>
  /\ pres = <<>>
  /\ ppos = <<>>
  /\ pdead = {}
  /\ plate = {}
  /\ pprevdead = {}
  /\ psources = <<>>

InitCycleQuiet ==
  /\ ydisk = <<>>
  /\ ysnap = <<>>
  /\ ymap = <<>>
  /\ yops = 0
  /\ ylast = <<>>
  /\ yprev = <<>>

InitUnitsQuiet ==
  /\ InitGateQuiet
  /\ InitMetricsQuiet
  /\ InitDiffQuiet
  /\ InitBuildQuiet
  /\ InitResolveQuiet
  /\ InitCollapseQuiet
  /\ InitGrafanaQuiet
  /\ InitOriginalQuiet
  /\ InitIngestQuiet
  /\ InitShutdownQuiet
  /\ InitLocksQuiet
  /\ InitFanoutQuiet
  /\ InitProbeQuiet
  /\ InitCycleQuiet

\* the store as the specifications of the hub alone see it
InitStoreIdle ==
  /\ InitStoreRestored(CacheS2)
  /\ fpc = [p \in Procs |-> Rest(p)]
  /\ InitLocals
  /\ fticks = 0
  /\ rsnap = 0
  /\ view = EmptyMap
  /\ cload = "none"
  /\ capplied = 0

InitStoreQuiet == InitStoreIdle /\ InitUnitsQuiet

(***************************************************************************)
(* The hub under concurrent handlers and broadcasters                      *)
(***************************************************************************)
\* the update payload is opaque to the hub
AnyUpdate == "update"

\* Messages 1..n, as marshalled by n earlier broadcasts
Backlog(from, to) == [i \in 1..(to - from + 1) |-> [id |-> from + i - 1, upd |-> AnyUpdate]]

\* a refresher reaches hub.Broadcast(diff); what the store did before is not
\* followed in the specifications of the hub alone
Refresher_BroadcastAny(b) ==
  /\ bcount[b] < BroadcastLimit(b)
  /\ Broadcast_Call(b, AnyUpdate)
  /\ UNCHANGED storeVars

\* The hub just constructed by NewHub, before any request
InitFresh ==
  /\ clients = {}
  /\ chanBuf = <<>>
  /\ chanClosed = <<>>
  /\ hpc = [h \in Handlers |-> "start"]
  /\ hch = [h \in Handlers |-> 0]
  /\ hresp = [h \in Handlers |-> 0]
  /\ received = [h \in Handlers |-> <<>>]
  /\ nbroadcast = 0
  /\ delivered = {}
  /\ skipped = {}

\* The hub after ChanCap broadcasts to connected subscribers, of which the
\* second is slow: it has consumed none of them, the others all.
InitSlow ==
    LET got(h) == IF h = 2 THEN 0 ELSE ChanCap IN
    /\ clients = Handlers
    /\ chanBuf = [h \in Handlers |-> Backlog(got(h) + 1, ChanCap)]
    /\ chanClosed = [h \in Handlers |-> FALSE]
    /\ hpc = [h \in Handlers |-> "stream"]
    /\ hch = [h \in Handlers |-> h]
    /\ hresp = [h \in Handlers |-> 200]
    /\ received = [h \in Handlers |-> Backlog(1, got(h))]
    /\ nbroadcast = ChanCap
    /\ delivered = (1..ChanCap) \X Handlers
    /\ skipped = {}

InitIdle ==
  /\ muWriter = {}
  /\ muReaders = {}
  /\ bpc = [b \in Procs |-> "idle"]
  /\ bmsg = [b \in Procs |-> [id |-> 0, upd |-> AnyUpdate]]
  /\ btodo = [b \in Procs |-> {}]
  /\ bcount = [b \in Procs |-> 0]
  /\ dupAttempt = FALSE
  /\ sentOnClosed = FALSE

Init == InitFresh /\ InitIdle /\ InitStoreQuiet

Next ==
  \/ \E h \in Handlers : HandleSSE_Subscribe(h)
  \/ \E h \in Handlers : HandleSSE_Receive(h)
  \/ \E h \in Handlers : HandleSSE_Disconnect(h)
  \/ \E h \in Handlers : Unsubscribe_Delete(h)
  \/ \E h \in Handlers : Unsubscribe_Close(h)
  \/ \E b \in Procs : Refresher_BroadcastAny(b)
  \/ \E b \in Procs : Broadcast_RLock(b)
  \/ \E b \in Procs : \E ch \in btodo[b] : Broadcast_Send(b, ch)
  \/ \E b \in Procs : Broadcast_RUnlock(b)

Spec == Init /\ [][Next]_vars

(***************************************************************************)
(* The hub with a slow subscriber: three connected subscribers, the second *)
(* with a full buffer; broadcasts and receives from there on (the three    *)
(* clients stay connected).                                                *)
(***************************************************************************)
InitSlowHub == InitSlow /\ InitIdle /\ InitStoreQuiet

NextSlow ==
  \/ \E h \in Handlers : HandleSSE_Receive(h)
  \/ \E b \in Procs : Refresher_BroadcastAny(b)
  \/ \E b \in Procs : Broadcast_RLock(b)
  \/ \E b \in Procs : \E ch \in btodo[b] : Broadcast_Send(b, ch)
  \/ \E b \in Procs : Broadcast_RUnlock(b)

SpecSlow == InitSlowHub /\ [][NextSlow]_vars

(***************************************************************************)
(* The hub near its client cap: maxSSEClients - 2 .. maxSSEClients         *)
(* subscribers are connected and stay so, while NumHandlers further        *)
(* requests connect and disconnect.                                        *)
(***************************************************************************)
InitCap ==
  /\ \E k \in (maxSSEClients - 2)..maxSSEClients :
       /\ clients = 1..k
       /\ chanBuf = [ch \in 1..k |-> <<>>]
       /\ chanClosed = [ch \in 1..k |-> FALSE]
  /\ hpc = [h \in Handlers |-> "start"]
  /\ hch = [h \in Handlers |-> 0]
  /\ hresp = [h \in Handlers |-> 0]
  /\ received = [h \in Handlers |-> <<>>]
  /\ nbroadcast = 0
  /\ delivered = {}
  /\ skipped = {}
  /\ InitIdle
  /\ InitStoreQuiet

NextCap ==
  \/ \E h \in Handlers : HandleSSE_Subscribe(h)
  \/ \E h \in Handlers : HandleSSE_Disconnect(h)
  \/ \E h \in Handlers : Unsubscribe_Delete(h)
  \/ \E h \in Handlers : Unsubscribe_Close(h)

SpecCap == InitCap /\ [][NextCap]_vars

(***************************************************************************)
(* Startup from the cache files: the background refresh and the refresh    *)
(* loop run side by side, and a browser loads the node list.  The          *)
(* directory answers as in WorldZ or not at all; nobody is subscribed to   *)
(* the hub.                                                                *)
(***************************************************************************)
InitFed ==
  /\ InitUnitsQuiet
  /\ InitStoreRestored(CacheZ)
  /\ InitRefreshers
  /\ fticks = MaxStartupTicks
  /\ InitBrowserOpens
  /\ InitFresh
  /\ InitIdle

NextFed ==
  \/ Background_GetSnapshot
  \/ Loop_DiscoveryTick
  \/ Loop_DataTick
  \/ \E p \in Procs : DiscoverAndRefresh_Error(p)
  \/ \E p \in Procs : DiscoverAndRefresh_Assign(p, WorldZ, WorldZ.communities)
  \/ \E p \in Procs : \E order \in Arrival(Len(fsSources)) :
       \E results \in FetchAll(fsSources) : RefreshAllSources_Merge(p, order, results)
  \/ \E p \in Procs : RefreshAllSources_DomainNames(p)
  \/ \E p \in Procs : RefreshAllSources_ProcessData(p)
  \/ \E p \in Procs : RefreshAllSources_Tag(p)
  \/ \E p \in Procs : RefreshAllSources_SetSnapshot(p)
  \/ \E p \in Procs : RefreshAllSources_SaveState(p)
  \/ \E p \in Procs : Refresher_Broadcast(p)
  \/ \E b \in Procs : Broadcast_RLock(b)
  \/ \E b \in Procs : Broadcast_RUnlock(b)
  \/ \E p \in Procs : Refresher_Return(p)
  \/ API_Nodes
  \/ Client_LoadData

SpecFed == InitFed /\ [][NextFed]_vars

(***************************************************************************)
(* Startup without a cache: main runs the initial DiscoverAndRefresh       *)
(* itself and starts the refresh loop afterwards.  The directory answers   *)
(* as in any of the worlds, in any order, or not at all.                   *)
(***************************************************************************)
InitBoot ==
  /\ InitUnitsQuiet
  /\ InitStoreNoCache
  /\ InitRefreshers
  /\ fticks = MaxStartupTicks
  /\ InitBrowserOpens
  /\ InitFresh
  /\ InitIdle

NextBoot ==
  \/ Loop_DiscoveryTick
  \/ Loop_DataTick
  \/ \E p \in Procs : DiscoverAndRefresh_Error(p)
  \/ \E p \in Procs : \E world \in Worlds : \E arrival \in Arrivals(world) :
       DiscoverAndRefresh_Assign(p, world, arrival)
  \/ \E p \in Procs : \E order \in Arrival(Len(fsSources)) :
       \E results \in FetchAll(fsSources) : RefreshAllSources_Merge(p, order, results)
  \/ \E p \in Procs : RefreshAllSources_DomainNames(p)
  \/ \E p \in Procs : RefreshAllSources_ProcessData(p)
  \/ \E p \in Procs : RefreshAllSources_Tag(p)
  \/ \E p \in Procs : RefreshAllSources_SetSnapshot(p)
  \/ \E p \in Procs : RefreshAllSources_SaveState(p)
  \/ Refresher_Broadcast("loop")
  \/ Broadcast_RLock("loop")
  \/ Broadcast_RUnlock("loop")
  \/ Refresher_Return("loop")
  \/ API_Nodes
  \/ Client_LoadData

SpecBoot == InitBoot /\ [][NextBoot]_vars

(***************************************************************************)
(* A browser behind a slow connection: its channel holds ChanCap updates   *)
(* of ChanCap data ticks that found nothing changed, none of them written  *)
(* out yet.  The directory lists community z alone.  The data ticker fires *)
(* on; the discovery ticker does not.                                      *)
(***************************************************************************)
\* the update of a refresh that changed nothing
StatsUpdate(snap) == ComputeDiff(snap, snap)

InitClient ==
  /\ InitUnitsQuiet
  /\ InitStoreRestored(CacheZ)
  /\ fpc = [p \in Procs |-> Rest(p)]
  /\ InitLocals
  /\ fticks = MaxTicks
  /\ rsnap = 2
  /\ view = ViewOf(heap[snapshot])
  /\ cload = "none"
  /\ capplied = 0
  /\ clients = {Browser}
  /\ chanBuf = <<[i \in 1..ChanCap |-> [id |-> i, upd |-> StatsUpdate(heap[snapshot])]]>>
  /\ chanClosed = <<FALSE>>
  /\ hpc = [h \in Handlers |-> IF h = Browser THEN "stream" ELSE "start"]
  /\ hch = [h \in Handlers |-> IF h = Browser THEN 1 ELSE 0]
  /\ hresp = [h \in Handlers |-> IF h = Browser THEN 200 ELSE 0]
  /\ received = [h \in Handlers |-> <<>>]
  /\ nbroadcast = ChanCap
  /\ delivered = (1..ChanCap) \X {1}
  /\ skipped = {}
  /\ muWriter = {}
  /\ muReaders = {}
  /\ bpc = [b \in Procs |-> "idle"]
  /\ bmsg = [b \in Procs |-> [id |-> 0, upd |-> AnyUpdate]]
  /\ btodo = [b \in Procs |-> {}]
  /\ bcount = [b \in Procs |-> IF b = "loop" THEN ChanCap ELSE 0]
  /\ dupAttempt = FALSE
  /\ sentOnClosed = FALSE

NextClient ==
  \/ Loop_DataTick
  \/ \E order \in Arrival(Len(fsSources)) : \E results \in FetchAll(fsSources) :
       RefreshAllSources_Merge("loop", order, results)
  \/ RefreshAllSources_DomainNames("loop")
  \/ RefreshAllSources_ProcessData("loop")
  \/ RefreshAllSources_Tag("loop")
  \/ RefreshAllSources_SetSnapshot("loop")
  \/ RefreshAllSources_SaveState("loop")
  \/ Refresher_Broadcast("loop")
  \/ Broadcast_RLock("loop")
  \/ \E ch \in btodo["loop"] : Broadcast_Send("loop", ch)
  \/ Broadcast_RUnlock("loop")
  \/ Refresher_Return("loop")
  \/ HandleSSE_Receive(Browser)
  \/ Client_Apply
  \/ API_Nodes
  \/ Client_LoadData

SpecClient == InitClient /\ [][NextClient]_vars

(***************************************************************************)
(* urlcheck.IsSafeURL called on one URL: any scheme, host and path of the  *)
(* sets below.  Nothing else runs.                                         *)
(***************************************************************************)
GateSchemes == {"http", "https", "ftp", ""}

GateHosts ==
  {"", "0.0.0.0", "10.0.0.1", "10.0.0.5", "100.100.100.200", "127.0.0.1",
   "169.254.169.254", "172.16.0.1", "172.32.0.1", "192.168.1.1", "224.0.0.1",
   "203.0.113.10", "::1", "fd00::1", "fe80::1", "2001:db8::1",
   "map.x.example", "intranet.y.example", "localhost", "rebind.example",
   "metadata.google.internal", "example", "api.freifunk.net"}

GatePaths == {<<>>, <<"latest", "meta-data">>}

GateURLs == {URL(s, h, p) : s \in GateSchemes, h \in GateHosts, p \in GatePaths}

InitGate ==
  /\ InitCycleQuiet
  /\ InitProbeQuiet
  /\ InitFanoutQuiet
  /\ InitLocksQuiet
  /\ InitShutdownQuiet
  /\ InitIngestQuiet
  /\ InitOriginalQuiet
  /\ InitGrafanaQuiet
  /\ InitCollapseQuiet
  /\ InitResolveQuiet
  /\ InitBuildQuiet
  /\ InitDiffQuiet
  /\ gpc = "call"
  /\ gurl \in GateURLs
  /\ gsafe = FALSE
  /\ InitFresh
  /\ InitIdle
  /\ InitStoreIdle
  /\ InitMetricsQuiet

IsSafeURL_Call ==
  /\ gpc = "call"
  /\ gsafe' = IsSafeURL(gurl)
  /\ gpc' = "done"
  /\ UNCHANGED <<cycleVars, probeVars, fanoutVars, lockVars, shutdownVars, ingestVars, originalVars, grafanaVars, collapseVars, resolveVars, buildVars, diffVars, gurl, metricsVars, fedVars, refVars, clientVars, domVars, hubVars, handlerVars,
                 bcastVars, histVars>>

NextGate == IsSafeURL_Call

SpecGate == InitGate /\ [][NextGate]_vars

(***************************************************************************)
(* internal/api: handleNodeMetrics.  One request is answered; the store    *)
(* holds the node->community map and the metadata cache given below,       *)
(* and of the queries the handler sends at most one fails.                 *)
(***************************************************************************)
\* the characters of the node ids of the model
Chars(id) ==
  CASE id = "aa:bb" -> <<"a", "a", ":", "b", "b">>
    [] id = "aa:bb_x" -> <<"a", "a", ":", "b", "b", "_", "x">>
    [] id = "cc:dd" -> <<"c", "c", ":", "d", "d">>
    [] id = "ee:ff" -> <<"e", "e", ":", "f", "f">>
    [] id = "0a-0B" -> <<"0", "a", "-", "0", "B">>
    [] id = "11:22" -> <<"1", "1", ":", "2", "2">>
    [] id = "33:44" -> <<"3", "3", ":", "4", "4">>
    [] id = "99:99" -> <<"9", "9", ":", "9", "9">>
    [] id = "zz;1" -> <<"z", "z", ";", "1">>
    [] id = "xyz" -> <<"x", "y", "z">>
    [] id = "ab" -> <<"a", "b">>
    [] id = "cd" -> <<"c", "d">>
    [] OTHER -> <<>>

\* (c >= '0' && c <= '9') || (c >= 'a' && c <= 'f') || (c >= 'A' && c <= 'F') ||
\* c == ':' || c == '-'
IsNodeIDChar(c) ==
  c \in {"0", "1", "2", "3", "4", "5", "6", "7", "8", "9",
         "a", "b", "c", "d", "e", "f", "A", "B", "C", "D", "E", "F", ":", "-"}

\* every string that, followed by "_" and a community key of the model,
\* gives a node id of the model
Stems == {"aa:bb", "zz;1", "", "gw", "gw_a", "gw_a_a", "n"}

\* strings.HasSuffix(nodeID, "_" + ck) and strings.TrimSuffix(nodeID, "_" + ck)
HasGwSuffix(nodeID, ck) == \E o \in Stems : GwSuffixed(o, ck) = nodeID

TrimGwSuffix(nodeID, ck) ==
  CHOOSE o \in Stems : GwSuffixed(o, ck) = nodeID

\* GrafanaInfoForNode: the loop that strips the community suffix
OriginalID(nodeID, comms) ==
  LET hit == {i \in 1..Len(comms) : HasGwSuffix(nodeID, comms[i])}
  IN IF hit = {} THEN nodeID
     ELSE TrimGwSuffix(nodeID, comms[CHOOSE i \in hit : \A j \in hit : i <= j])

\* GrafanaInfoForNode: the loop that picks the info
RECURSIVE BestInfo(_, _, _)
BestInfo(grafanaCache, comms, bestInfo) ==
  IF comms = <<>> THEN bestInfo
  ELSE IF Head(comms) \notin DOMAIN grafanaCache
    THEN BestInfo(grafanaCache, Tail(comms), bestInfo)
  ELSE IF grafanaCache[Head(comms)].DatasourceID > 0 THEN grafanaCache[Head(comms)]
  ELSE BestInfo(grafanaCache, Tail(comms),
                IF bestInfo.BaseURL = NoURL THEN grafanaCache[Head(comms)] ELSE bestInfo)

GrafanaInfoForNode(nodeCommMap, grafanaCache, nodeID) ==
  [info |-> BestInfo(grafanaCache, MapGet(nodeCommMap, nodeID, <<>>), GrafanaInfo(NoURL, <<>>)),
   originalID |-> OriginalID(nodeID, MapGet(nodeCommMap, nodeID, <<>>))]

\* the keys of the map queries
QueryNames == {"clients", "traffic_forward", "traffic_rx", "traffic_tx", "load", "memory"}

\* validDurations
ValidDurations ==
  [d \in {"6h", "12h", "24h", "48h", "7d", "14d", "30d"} |->
     CASE d = "6h" -> "1m" [] d = "12h" -> "2m" [] d = "24h" -> "5m" [] d = "48h" -> "10m"
       [] d = "7d" -> "30m" [] d = "14d" -> "1h" [] d = "30d" -> "2h"]

\* http.Error: the status, no cache header, no result list
HTTPError(status) == [status |-> status, cacheControl |-> "", results |-> <<>>]

NoResponse == HTTPError(0)

\* the part of the handler that resolves the node: an error response or the
\* target of the queries
ResolveTarget(config, nodeCommMap, grafanaCache, nodeID) ==
  IF config.Federation
    THEN Only({IF r.info.BaseURL = NoURL \/ r.info.DatasourceID = 0
                 THEN [err |-> 404]
                 ELSE [err |-> 0, grafanaURL |-> r.info.BaseURL, dsID |-> r.info.DatasourceID,
                       dbName |-> IF r.info.Database = "" THEN "yanic" ELSE r.info.Database,
                       queryNodeID |-> r.originalID] :
               r \in {GrafanaInfoForNode(nodeCommMap, grafanaCache, nodeID)}})
    ELSE IF config.GrafanaURL = NoURL THEN [err |-> 503]
    ELSE [err |-> 0, grafanaURL |-> config.GrafanaURL, dsID |-> 5, dbName |-> "yanic",
          queryNodeID |-> nodeID]

\* the request for one metric: dsURL
MetricQuery(t, mn, duration, interval) ==
  [base |-> t.grafanaURL, ds |-> t.dsID, db |-> t.dbName, q |-> mn, nodeid |-> t.queryNodeID,
   duration |-> duration, interval |-> interval]

\* the URL of a query, without its query string
DsURL(q) == URLJoin(URLJoin(URLJoin(URLJoin(q.base, "api"), "datasources"), "proxy"), "query")

\* the rows of results[0].series[0].values the upstream answers with
SeriesOf(mn) == IF mn = "traffic_rx" THEN <<<<100, 7>>, <<200, 9>>>> ELSE <<<<100, 3>>>>

\* a loop that stops at the first query that fails
RECURSIVE QueryLoopBreaks(_, _, _, _, _, _)
QueryLoopBreaks(names, t, duration, interval, upstream, acc) ==
  IF names = <<>> THEN acc
  ELSE IF Head(names) \notin QueryNames
    THEN QueryLoopBreaks(Tail(names), t, duration, interval, upstream, acc)
  ELSE IF ~IsSafeURL(DsURL(MetricQuery(t, Head(names), duration, interval))) THEN acc
  ELSE IF upstream[Head(names)] \notin {"ok", "empty"}
    THEN [acc EXCEPT !.queries =
            Append(@, MetricQuery(t, Head(names), duration, interval))]
  ELSE QueryLoopBreaks(Tail(names), t, duration, interval, upstream,
         [results |-> Append(acc.results,
                        [name |-> Head(names),
                         times |-> IF upstream[Head(names)] = "empty" THEN <<>>
                                   ELSE [i \in 1..Len(SeriesOf(Head(names))) |->
                                           SeriesOf(Head(names))[i][1]],
                         values |-> IF upstream[Head(names)] = "empty" THEN <<>>
                                    ELSE [i \in 1..Len(SeriesOf(Head(names))) |->
                                            SeriesOf(Head(names))[i][2]]]),
          queries |-> Append(acc.queries, MetricQuery(t, Head(names), duration, interval))])

\* the loop over metricNames: the results and the requests sent so far
RECURSIVE QueryLoop(_, _, _, _, _, _)
QueryLoop(names, t, duration, interval, upstream, acc) ==
  IF names = <<>> THEN acc
  ELSE IF Head(names) \notin QueryNames
    THEN QueryLoop(Tail(names), t, duration, interval, upstream, acc)
  ELSE IF ~IsSafeURL(DsURL(MetricQuery(t, Head(names), duration, interval)))
    THEN QueryLoop(Tail(names), t, duration, interval, upstream, acc)
  ELSE QueryLoop(Tail(names), t, duration, interval, upstream,
         [results |->
            IF upstream[Head(names)] \in {"ok", "empty"}
              THEN Append(acc.results,
                     [name |-> Head(names),
                      times |-> IF upstream[Head(names)] = "empty" THEN <<>>
                                ELSE [i \in 1..Len(SeriesOf(Head(names))) |->
                                        SeriesOf(Head(names))[i][1]],
                      values |-> IF upstream[Head(names)] = "empty" THEN <<>>
                                 ELSE [i \in 1..Len(SeriesOf(Head(names))) |->
                                         SeriesOf(Head(names))[i][2]]])
              ELSE acc.results,
          queries |-> Append(acc.queries, MetricQuery(t, Head(names), duration, interval))])

\* the handler from the query parameters on
QueryMetrics(t, metric, duration, upstream) ==
  QueryLoop(IF metric = "traffic" THEN <<"traffic_forward", "traffic_rx", "traffic_tx">>
            ELSE <<IF metric = "" THEN "clients" ELSE metric>>,
            t,
            IF duration \in DOMAIN ValidDurations THEN duration ELSE "24h",
            IF duration \in DOMAIN ValidDurations THEN ValidDurations[duration] ELSE "5m",
            upstream, [results |-> <<>>, queries |-> <<>>])

\* handleNodeMetrics: the response and the requests sent
NodeMetrics(config, nodeCommMap, grafanaCache, req, upstream) ==
  IF req.path[1] = "" THEN [resp |-> HTTPError(400), queries |-> <<>>]
  ELSE Only({
    IF t.err # 0 THEN [resp |-> HTTPError(t.err), queries |-> <<>>]
    ELSE IF \E i \in 1..Len(Chars(t.queryNodeID)) : ~IsNodeIDChar(Chars(t.queryNodeID)[i])
      THEN [resp |-> HTTPError(400), queries |-> <<>>]
    ELSE Only({[resp |-> [status |-> 200, cacheControl |-> "public, max-age=60",
                          results |-> r.results],
                queries |-> r.queries] :
               r \in {QueryMetrics(t, req.metric, req.duration, upstream)}}) :
    t \in {ResolveTarget(config, nodeCommMap, grafanaCache, req.path[1])}})

\* ---- the inputs ----
\* the store after a refresh over communities x (base and datasource known),
\* y (base known, no datasource), p (base on a private address), q (datasource
\* without a base) and w (nothing cached)
MetricsNodeCommMap ==
  [id \in {"aa:bb", "aa:bb_x", "cc:dd", "ee:ff", "0a-0B", "11:22", "33:44", "zz;1", "ab"} |->
     CASE id = "cc:dd" -> <<"y">>
       [] id = "ee:ff" -> <<"y", "x">>
       [] id = "0a-0B" -> <<"w">>
       [] id = "11:22" -> <<"p">>
       [] id = "33:44" -> <<"q", "x">>
       [] OTHER -> <<"x">>]

MetricsGrafanaCache ==
  [k \in {"x", "y", "p", "q"} |->
     CASE k = "x" -> [GrafanaInfo(StatsX, <<>>) EXCEPT !.DatasourceID = 12]
       [] k = "y" -> GrafanaInfo(URL("https", "stats.y.example", <<>>), <<>>)
       [] k = "p" -> [GrafanaInfo(URL("http", "10.0.0.5", <<>>), <<>>) EXCEPT
                        !.DatasourceID = 3, !.Database = "ffp"]
       [] k = "q" -> [GrafanaInfo(NoURL, <<>>) EXCEPT !.DatasourceID = 7]]

\* federation mode; single-community mode with and without grafanaURL
MetricsConfigs ==
  {[Federation |-> TRUE, GrafanaURL |-> NoURL],
   [Federation |-> FALSE, GrafanaURL |-> NoURL],
   [Federation |-> FALSE, GrafanaURL |-> StatsX],
   [Federation |-> FALSE, GrafanaURL |-> URL("http", "10.0.0.5", <<>>)]}

\* the path below /api/metrics/, split at "/"
MetricsPaths ==
  {<<"">>, <<"aa:bb">>, <<"aa:bb_x">>, <<"cc:dd">>, <<"ee:ff">>, <<"0a-0B">>, <<"11:22">>,
   <<"33:44">>, <<"99:99">>, <<"zz;1">>, <<"xyz">>, <<"ab", "cd">>}

MetricsParams ==
  {[metric |-> "", duration |-> ""], [metric |-> "clients", duration |-> "7d"],
   [metric |-> "traffic", duration |-> "24h"], [metric |-> "traffic", duration |-> "1y"],
   [metric |-> "uptime", duration |-> "6h"]}

MetricsRequests ==
  {[path |-> p, metric |-> q.metric, duration |-> q.duration] :
     p \in MetricsPaths, q \in MetricsParams}

\* what the time-series server does with each query: a series ("ok"), no
\* series ("empty"), no answer ("transport"), a status other than 200
\* ("status"), a body that is not JSON ("garbage"); at most one query fails
Upstreams ==
  {[mn \in QueryNames |-> "ok"]} \cup
  {[mn \in QueryNames |-> IF mn = bad THEN how ELSE "ok"] :
     bad \in {"clients", "traffic_forward", "traffic_rx", "traffic_tx"},
     how \in {"empty", "transport", "status", "garbage"}}

\* the store of the requests
InitMetricsStore ==
  /\ startup = "cached"
  /\ disk = CacheS2.state
  /\ grafanaFile = MetricsGrafanaCache
  /\ fsCommunities = CacheS2.state.Communities
  /\ fsSources = CacheS2.state.Sources
  /\ fsNodeCommMap = MetricsNodeCommMap
  /\ fsGrafanaCache = MetricsGrafanaCache
  /\ cfgDomainNames = ConfigDomainNames
  /\ heap = <<EmptySnapshot, RestoredSnapshot(CacheS2.state)>>
  /\ snapshot = 2
  /\ published = {1, 2}
  /\ requests = {}
  /\ gateAccepted = {}

InitMetrics ==
  /\ InitCycleQuiet
  /\ InitProbeQuiet
  /\ InitFanoutQuiet
  /\ InitLocksQuiet
  /\ InitShutdownQuiet
  /\ InitIngestQuiet
  /\ InitOriginalQuiet
  /\ InitGrafanaQuiet
  /\ InitCollapseQuiet
  /\ InitResolveQuiet
  /\ InitBuildQuiet
  /\ InitDiffQuiet
  /\ InitMetricsStore
  /\ fpc = [p \in Procs |-> Rest(p)]
  /\ InitLocals
  /\ fticks = 0
  /\ rsnap = 0
  /\ view = EmptyMap
  /\ cload = "none"
  /\ capplied = 0
  /\ InitFresh
  /\ InitIdle
  /\ InitGateQuiet
  /\ cfg \in MetricsConfigs
  /\ mreq \in MetricsRequests
  /\ mup \in Upstreams
  /\ mpc = "request"
  /\ mresp = NoResponse
  /\ mqueries = <<>>

HandleNodeMetrics ==
  /\ mpc = "request"
  /\ \E r \in {NodeMetrics(cfg, fsNodeCommMap, fsGrafanaCache, mreq, mup)} :
       /\ mresp' = r.resp
       /\ mqueries' = r.queries
  /\ mpc' = "done"
  /\ UNCHANGED <<cycleVars, probeVars, fanoutVars, lockVars, shutdownVars, ingestVars, originalVars, grafanaVars, collapseVars, resolveVars, buildVars, diffVars, cfg, mreq, mup, gateVars, fedVars, refVars, clientVars, domVars, hubVars,
                 handlerVars, bcastVars, histVars>>

NextMetrics == HandleNodeMetrics

SpecMetrics == InitMetrics /\ [][NextMetrics]_vars

(***************************************************************************)
(* store.ComputeDiff called on two snapshots the builder made of the nodes *)
(* n1, n2 and n3.  Nothing else runs.                                      *)
(***************************************************************************)
\* what a source can report of a node: nothing, or one of these records
DiffReports(id) ==
  {<<>>} \cup
  {<<[RawNode(id, id, on, FALSE, ncli, "") EXCEPT !.LoadAvg = la, !.MemoryUsage = mu]>> :
     on \in {TRUE}, ncli \in {0, 5, 6}, la \in {0}, mu \in {0}} \cup
  {<<RawNode(id, id, FALSE, FALSE, 0, "")>>,
   <<[RawNode(id, id, TRUE, FALSE, 5, "") EXCEPT !.LoadAvg = 1]>>,
   <<[RawNode(id, id, TRUE, FALSE, 5, "") EXCEPT !.MemoryUsage = 1]>>}

DiffSnapshots ==
  {ProcessData(MeshviewerData(r1 \o r2 \o r3, <<>>)) :
     r1 \in DiffReports("n1"), r2 \in DiffReports("n2"),
     r3 \in {<<>>, <<RawNode("n3", "n3", TRUE, FALSE, 2, "")>>}}

InitDiff ==
  /\ InitCycleQuiet
  /\ InitProbeQuiet
  /\ InitFanoutQuiet
  /\ InitLocksQuiet
  /\ InitShutdownQuiet
  /\ InitIngestQuiet
  /\ InitOriginalQuiet
  /\ InitGrafanaQuiet
  /\ InitCollapseQuiet
  /\ InitResolveQuiet
  /\ InitBuildQuiet
  /\ dpc = "call"
  /\ dold \in DiffSnapshots
  /\ dcur \in DiffSnapshots
  /\ dupd = [Type |-> "", Stats |-> EmptyStats, Changed |-> {}, New |-> {}, Gone |-> {}]
  /\ InitFresh
  /\ InitIdle
  /\ InitStoreIdle
  /\ InitGateQuiet
  /\ InitMetricsQuiet

ComputeDiff_Call ==
  /\ dpc = "call"
  /\ dupd' = ComputeDiff(dold, dcur)
  /\ dpc' = "done"
  /\ UNCHANGED <<cycleVars, probeVars, fanoutVars, lockVars, shutdownVars, ingestVars, originalVars, grafanaVars, collapseVars, resolveVars, buildVars, dold, dcur, gateVars, metricsVars, fedVars, refVars, clientVars, domVars, hubVars,
                 handlerVars, bcastVars, histVars>>

NextDiff == ComputeDiff_Call

SpecDiff == InitDiff /\ [][NextDiff]_vars

(***************************************************************************)
(* Store.ProcessData called on a document as Store.Refresh of the single-  *)
(* community mode passes it on: up to MaxRawNodes node records, among them *)
(* records with the same id and a record without id, and up to             *)
(* MaxRawLinks links, among them a link to a node no record describes.     *)
(***************************************************************************)
MaxRawNodes == 3

MaxRawLinks == 2

BuildRecords ==
  {RawNode("n1", "n1", TRUE, FALSE, 5, ""), RawNode("n1", "n1", FALSE, FALSE, 2, ""),
   RawNode("n2", "n2", TRUE, TRUE, 0, ""), RawNode("", "n3", TRUE, FALSE, 1, "")}

BuildLinks ==
  {RawLink("n1", "n2"), RawLink("n2", "n1"), RawLink("n1", "n9"), RawLink("n1", "n1")}

\* the sequences over S of length n at most
SeqsUpTo(S, n) == UNION {[1..k -> S] : k \in 0..n}

InitBuild ==
  /\ InitCycleQuiet
  /\ InitProbeQuiet
  /\ InitFanoutQuiet
  /\ InitLocksQuiet
  /\ InitShutdownQuiet
  /\ InitIngestQuiet
  /\ InitOriginalQuiet
  /\ InitGrafanaQuiet
  /\ InitCollapseQuiet
  /\ InitResolveQuiet
  /\ ppc = "call"
  /\ praw \in {MeshviewerData(ns, ls) :
                 ns \in SeqsUpTo(BuildRecords, MaxRawNodes),
                 ls \in SeqsUpTo(BuildLinks, MaxRawLinks)}
  /\ psnap = EmptySnapshot
  /\ InitFresh
  /\ InitIdle
  /\ InitStoreIdle
  /\ InitGateQuiet
  /\ InitMetricsQuiet
  /\ InitDiffQuiet

ProcessData_Call ==
  /\ ppc = "call"
  /\ psnap' = ProcessData(praw)
  /\ ppc' = "done"
  /\ UNCHANGED <<cycleVars, probeVars, fanoutVars, lockVars, shutdownVars, ingestVars, originalVars, grafanaVars, collapseVars, resolveVars, praw, gateVars, metricsVars, diffVars, fedVars, refVars, clientVars, domVars,
                 hubVars, handlerVars, bcastVars, histVars>>

NextBuild == ProcessData_Call

SpecBuild == InitBuild /\ [][NextBuild]_vars

(***************************************************************************)
(* Store.DiscoverAndRefresh up to the assignment of the store's fields,    *)
(* called on a directory of four communities: a (three keys), b, c and     *)
(* d (two keys, the data URL and the map of b).  None, some or all of the  *)
(* data URLs answer; the maps of the communities name dataPath entries:    *)
(* a's map two, the map of b and d the first of them, c's map the second   *)
(* (and, in some worlds, also the data URL of b).                          *)
(***************************************************************************)
RA == URL("https", "map.x.example", <<"data", "meshviewer.json">>)
RB == URL("https", "map.y.example", <<"data", "meshviewer.json">>)
RC == URL("https", "map.z.example", <<"data", "meshviewer.json">>)
RD1 == URL("https", "map.x.example", <<"one", "meshviewer.json">>)
RD2 == URL("https", "map.x.example", <<"two", "meshviewer.json">>)

KA == [Community("a1", "A", <<RA>>, NoURL) EXCEPT !.AllKeys = <<"a1", "a2", "a3">>]
KB == Community("b", "B", <<RB>>, NoURL)
KC == Community("c", "C", <<RC>>, NoURL)
KD == [Community("d", "D", <<RB>>, NoURL) EXCEPT !.AllKeys = <<"d", "d2">>]

\* the page at the base of a data URL
MapPage(u) == URLJoin([u EXCEPT !.path = <<>>], "")

ResolveWorlds ==
  {[communities |-> cs, alive |-> alive, config |-> EmptyMap,
    inline |-> MapPut(MapPut(MapPut(EmptyMap,
                 MapPage(RA), GrafanaInfo(NoURL, <<RD1, RD2>>)),
                 MapPage(RB), GrafanaInfo(NoURL, <<RD1>>)),
                 MapPage(RC), GrafanaInfo(NoURL, pathsC)),
    datasources |-> EmptyMap] :
     cs \in {<<KA, KB, KC, KD>>, <<KB, KD, KC, KA>>},
     alive \in SUBSET {RA, RB, RC},
     pathsC \in {<<RD2>>, <<RB, RD2>>}}

\* the orders in which the goroutines of the communities can deliver
Deliveries(communities) ==
  {[i \in 1..Len(communities) |-> communities[o[i]]] : o \in Arrival(Len(communities))}

InitResolve ==
  /\ InitCycleQuiet
  /\ InitProbeQuiet
  /\ InitFanoutQuiet
  /\ InitLocksQuiet
  /\ InitShutdownQuiet
  /\ InitIngestQuiet
  /\ InitOriginalQuiet
  /\ InitGrafanaQuiet
  /\ InitCollapseQuiet
  /\ rpc = "call"
  /\ rworld \in ResolveWorlds
  /\ rarrival \in Deliveries(rworld.communities)
  /\ rout = NoDiscovery
  /\ InitFresh
  /\ InitIdle
  /\ InitStoreIdle
  /\ InitGateQuiet
  /\ InitMetricsQuiet
  /\ InitDiffQuiet
  /\ InitBuildQuiet

\* DiscoverAndRefresh from ResolveBestSources to the end of the dataPath loop
DiscoverAndRefresh_Resolve ==
  /\ rpc = "call"
  /\ rout' = Discovered(rworld, rarrival, EmptyMap)
  /\ rpc' = "done"
  /\ UNCHANGED <<cycleVars, probeVars, fanoutVars, lockVars, shutdownVars, ingestVars, originalVars, grafanaVars, collapseVars, rworld, rarrival, gateVars, metricsVars, diffVars, buildVars, fedVars,
                 refVars, clientVars, domVars, hubVars, handlerVars, bcastVars, histVars>>

NextResolve == DiscoverAndRefresh_Resolve

SpecResolve == InitResolve /\ [][NextResolve]_vars

(***************************************************************************)
(* federation.DiscoverCommunities, from the parsed directory on            *)
(***************************************************************************)
\* strings.HasSuffix(u, ".json")
HasJSONSuffix(u) ==
  Len(u.path) > 0 /\ u.path[Len(u.path)] \in {"meshviewer.json", "nodes.json", "nodelist.json"}

\* the URLs one entry of nodeMaps adds to the two lists
NodeMapURLs(c, nm) ==
  LET u == nm.URL
      tt == ToLower(nm.TechnicalType)
      base == TrimSlash(u)
      dataMv == URLJoin(URLJoin(base, "data"), "meshviewer.json")
      rootData == URL(u.scheme, u.host, <<"data", "meshviewer.json">>)
  IN IF u = NoURL THEN c
     ELSE IF tt \in {"meshviewer", "hopglass", "ffmap"} /\ HasJSONSuffix(u)
       THEN [c EXCEPT !.MeshviewerURLs = Append(@, u)]
     ELSE IF tt = "nodelist"
       THEN [c EXCEPT !.NodelistURLs = Append(@, u)]
     ELSE IF tt \in {"meshviewer", "hopglass", "ffmap"}
       THEN [c EXCEPT !.MeshviewerURLs =
               @ \o <<dataMv, URLJoin(base, "meshviewer.json"),
                      URLJoin(URLJoin(base, "data"), "nodes.json"),
                      URLJoin(base, "nodes.json")>>
                 \o (IF rootData # dataMv THEN <<rootData>> ELSE <<>>)]
     ELSE c

RECURSIVE AllNodeMapURLs(_, _)
AllNodeMapURLs(c, nms) ==
  IF nms = <<>> THEN c ELSE AllNodeMapURLs(NodeMapURLs(c, Head(nms)), Tail(nms))

\* c := Community{...} of one directory entry, with its URL lists
DirectoryCommunity(key, entry) ==
  AllNodeMapURLs([Key |-> key, Name |-> entry.Name, Nodes |-> entry.Nodes,
                  MeshviewerURLs |-> <<>>, NodelistURLs |-> <<>>,
                  GrafanaURL |-> NoURL, AllKeys |-> <<>>],
                 entry.NodeMaps)

\* the loop over the directory: the entries with a URL, in the order of range
RECURSIVE DirectoryCommunities(_, _)
DirectoryCommunities(directory, order) ==
  IF order = <<>> THEN <<>>
  ELSE LET c == DirectoryCommunity(Head(order), directory[Head(order)])
       IN (IF Len(c.MeshviewerURLs) > 0 \/ Len(c.NodelistURLs) > 0 THEN <<c>> ELSE <<>>)
          \o DirectoryCommunities(directory, Tail(order))

\* the keys of the model in Go's string order
KeyOrder == <<"k1", "k2", "k3">>

KeyLess(a, b) ==
  \E i, j \in 1..Len(KeyOrder) : KeyOrder[i] = a /\ KeyOrder[j] = b /\ i < j

\* for _, u := range urls { if !containsStr(list, u) { list = append(list, u) } }
RECURSIVE AppendMissing(_, _)
AppendMissing(list, urls) ==
  IF urls = <<>> THEN list
  ELSE AppendMissing(IF \E i \in 1..Len(list) : list[i] = Head(urls)
                       THEN list ELSE Append(list, Head(urls)),
                     Tail(urls))

\* an entry whose name is taken is folded into existing
FoldInto(existing, c) ==
  LET promoted == \/ c.Nodes > existing.Nodes
                  \/ c.Nodes = existing.Nodes /\ KeyLess(c.Key, existing.Key)
  IN [existing EXCEPT
        !.AllKeys = Append(@, c.Key),
        !.Key = IF promoted THEN c.Key ELSE @,
        !.Nodes = IF promoted THEN c.Nodes ELSE @,
        !.MeshviewerURLs = AppendMissing(@, c.MeshviewerURLs),
        !.NodelistURLs = AppendMissing(@, c.NodelistURLs),
        !.GrafanaURL = IF c.GrafanaURL # NoURL /\ @ = NoURL THEN c.GrafanaURL ELSE @]

\* "consolidate communities with the same name": mergedComms
RECURSIVE Consolidate(_, _)
Consolidate(communities, mergedComms) ==
  IF communities = <<>> THEN mergedComms
  ELSE LET c == Head(communities)
           named == {i \in 1..Len(mergedComms) : mergedComms[i].Name = c.Name}
       IN Consolidate(Tail(communities),
            IF named = {}
              THEN Append(mergedComms, [c EXCEPT !.AllKeys = <<c.Key>>])
              ELSE LET idx == CHOOSE i \in named : TRUE
                   IN [mergedComms EXCEPT ![idx] = FoldInto(@, c)])

\* sort.Slice orders by Nodes, descending, and promises no order among equals
SortedByNodes(list) ==
  {[i \in 1..Len(list) |-> list[o[i]]] : o \in
     {p \in Arrival(Len(list)) :
        \A i, j \in 1..Len(list) : i < j => list[p[i]].Nodes >= list[p[j]].Nodes}}

(***************************************************************************)
(* DiscoverCommunities called on a directory of three entries k1, k2, k3,  *)
(* of one or two names, with any of a few lists of node maps, iterated in  *)
(* any order.                                                              *)
(***************************************************************************)
MapM == URL("https", "map.x.example", <<"">>)
MapMBare == URL("https", "map.x.example", <<>>)
MapN == URL("https", "map.y.example", <<"data", "meshviewer.json">>)
ListN == URL("https", "map.y.example", <<"nodelist.json">>)

\* nodeMaps: none; a meshviewer; the same map as meshviewer and as hopglass;
\* a direct data URL; a nodelist and a direct data URL
DirectoryNodeMaps ==
  {<<>>,
   <<[URL |-> MapM, TechnicalType |-> "meshviewer"]>>,
   <<[URL |-> MapM, TechnicalType |-> "meshviewer"],
     [URL |-> MapMBare, TechnicalType |-> "hopglass"]>>,
   <<[URL |-> MapN, TechnicalType |-> "meshviewer"]>>,
   <<[URL |-> ListN, TechnicalType |-> "nodelist"],
     [URL |-> MapN, TechnicalType |-> "ffmap"]>>}

DirectoryEntries(names) ==
  {[Name |-> n, Nodes |-> k, NodeMaps |-> nms] :
     n \in names, k \in {5, 9}, nms \in DirectoryNodeMaps}

Directories ==
  {[k \in {"k1", "k2", "k3"} |-> IF k = "k1" THEN e1 ELSE IF k = "k2" THEN e2 ELSE e3] :
     e1 \in DirectoryEntries({"M"}), e2 \in DirectoryEntries({"M", "N"}),
     e3 \in DirectoryEntries({"M", "N"})}

InitCollapse ==
  /\ InitCycleQuiet
  /\ InitProbeQuiet
  /\ InitFanoutQuiet
  /\ InitLocksQuiet
  /\ InitShutdownQuiet
  /\ InitIngestQuiet
  /\ InitOriginalQuiet
  /\ InitGrafanaQuiet
  /\ kpc = "call"
  /\ kdir \in Directories
  /\ korder \in {[i \in 1..3 |-> KeyOrder[o[i]]] : o \in Arrival(3)}
  /\ kout = <<>>
  /\ InitFresh
  /\ InitIdle
  /\ InitStoreIdle
  /\ InitGateQuiet
  /\ InitMetricsQuiet
  /\ InitDiffQuiet
  /\ InitBuildQuiet
  /\ InitResolveQuiet

\* the loop over the directory and the consolidation
DiscoverCommunities_Consolidate ==
  /\ kpc = "call"
  /\ kout' = Consolidate(DirectoryCommunities(kdir, korder), <<>>)
  /\ kpc' = "merged"
  /\ UNCHANGED <<cycleVars, probeVars, fanoutVars, lockVars, shutdownVars, ingestVars, originalVars, grafanaVars, kdir, korder, gateVars, metricsVars, diffVars, buildVars, resolveVars,
                 fedVars, refVars, clientVars, domVars, hubVars, handlerVars, bcastVars,
                 histVars>>

\* sort.Slice(communities, ...); return communities, nil
DiscoverCommunities_Sort ==
  /\ kpc = "merged"
  /\ kout' \in SortedByNodes(kout)
  /\ kpc' = "done"
  /\ UNCHANGED <<cycleVars, probeVars, fanoutVars, lockVars, shutdownVars, ingestVars, originalVars, grafanaVars, kdir, korder, gateVars, metricsVars, diffVars, buildVars, resolveVars,
                 fedVars, refVars, clientVars, domVars, hubVars, handlerVars, bcastVars,
                 histVars>>

NextCollapse == DiscoverCommunities_Consolidate \/ DiscoverCommunities_Sort

SpecCollapse == InitCollapse /\ [][NextCollapse]_vars

(***************************************************************************)
(* federation.DiscoverGrafanaURLs, run after run over grafana_cache.json   *)
(***************************************************************************)
MaxGrafanaRuns == 3

StatsY == URL("https", "stats.y.example", <<>>)
DashX == URL("https", "stats.x.example", <<"d", "node">>)
DashY == URL("https", "stats.y.example", <<"d", "node">>)

\* the directory names a Grafana for x and none for y
GrafanaCommunities == <<CX, CY>>

GrafanaSources ==
  <<CommunitySource("x", <<"x">>, UX, "meshviewer", StatsX, CollectMapBases(CX)),
    CommunitySource("y", <<"y">>, UY, "meshviewer", NoURL, CollectMapBases(CY))>>

\* what extractGrafanaFromConfig reads from the config.json of a map
ConfigAnswer(base, dash) == [GrafanaInfo(base, <<>>) EXCEPT !.DashboardURL = dash]

\* config.json of a map answers or not; /api/datasources of a Grafana
\* lists an influxdb datasource or does not answer
GrafanaWorlds ==
  {[communities |-> GrafanaCommunities, alive |-> {UX, UY},
    config |-> [u \in cfgs |->
                  IF u.host = "map.x.example" THEN ConfigAnswer(StatsX, DashX)
                  ELSE ConfigAnswer(StatsY, DashY)],
    inline |-> EmptyMap,
    datasources |-> [u \in dss |-> 5]] :
     cfgs \in SUBSET {URLJoin(URL("https", "map.x.example", <<>>), "config.json"),
                      URLJoin(URL("https", "map.y.example", <<>>), "config.json")},
     dss \in SUBSET {DatasourceURL(GrafanaInfo(StatsX, <<>>)),
                     DatasourceURL(GrafanaInfo(StatsY, <<>>))}}

InitGrafana ==
  /\ InitCycleQuiet
  /\ InitProbeQuiet
  /\ InitFanoutQuiet
  /\ InitLocksQuiet
  /\ InitShutdownQuiet
  /\ InitIngestQuiet
  /\ InitOriginalQuiet
  /\ gruns = 0
  /\ grworld = WorldZ
  /\ grprev = EmptyMap
  /\ grfile = EmptyMap
  /\ grout = [cache |-> EmptyMap, req |-> {}, file |-> EmptyMap]
  /\ InitFresh
  /\ InitIdle
  /\ InitStoreIdle
  /\ InitGateQuiet
  /\ InitMetricsQuiet
  /\ InitDiffQuiet
  /\ InitBuildQuiet
  /\ InitResolveQuiet
  /\ InitCollapseQuiet

\* one run: LoadGrafanaCache, the probes, SaveGrafanaCache unless it
\* returned early; the network need not answer as it did in the run before
DiscoverGrafanaURLs_Run ==
  /\ gruns < MaxGrafanaRuns
  /\ gruns' = gruns + 1
  /\ grprev' = grfile
  /\ grworld' \in GrafanaWorlds
  /\ grout' = DiscoverGrafanaURLs(grworld', GrafanaSources, GrafanaCommunities, grfile)
  /\ grfile' = grout'.file
  /\ UNCHANGED <<cycleVars, probeVars, fanoutVars, lockVars, shutdownVars, ingestVars, originalVars, gateVars, metricsVars, diffVars, buildVars, resolveVars, collapseVars,
                 fedVars, refVars, clientVars, domVars, hubVars, handlerVars, bcastVars,
                 histVars>>

NextGrafana == DiscoverGrafanaURLs_Run

SpecGrafana == InitGrafana /\ [][NextGrafana]_vars

(***************************************************************************)
(* Store.RefreshAllSources and Store.GrafanaInfoForNode on one or two      *)
(* sources with a gateway and a client each                                *)
(***************************************************************************)
\* a source of the communities x and a_x: one of them alone; both under one
\* name, where AllKeys lists the keys as the directory was iterated and
\* Key is that of the entry with more nodes; in either order
OriginalSources ==
  {CommunitySource(k, ks, UX, "meshviewer", NoURL, <<>>) :
     k \in {"x", "a_x"}, ks \in {<<"x", "a_x">>, <<"a_x", "x">>}}
  \cup {CommunitySource(k, <<k>>, UX, "meshviewer", NoURL, <<>>) : k \in {"x", "a_x"}}

\* what the source reports: a gateway and a client of it
OriginalDocs(gws, cls) ==
  {MeshviewerData(<<RawNode(g, g, TRUE, TRUE, 0, ""), RawNode(c, c, TRUE, FALSE, 1, g)>>,
                  <<RawLink(g, c)>>) : g \in gws, c \in cls}

SourceY == CommunitySource("y", <<"y">>, UY, "meshviewer", NoURL, <<>>)

InitOriginal ==
  /\ InitCycleQuiet
  /\ InitProbeQuiet
  /\ InitFanoutQuiet
  /\ InitLocksQuiet
  /\ InitShutdownQuiet
  /\ InitIngestQuiet
  /\ opc = "merge"
  /\ \E src \in OriginalSources, doc \in OriginalDocs({"gw", "gw_a"}, {"n", "n_x"}) :
       \/ osrcs = <<src>> /\ odocs = <<doc>>
       \/ /\ osrcs = <<src, SourceY>>
          /\ \E docY \in OriginalDocs({"gw"}, {"n"}) : odocs = <<doc, docY>>
  /\ omap = EmptyMap
  /\ oids = EmptyMap
  /\ InitFresh
  /\ InitIdle
  /\ InitStoreIdle
  /\ InitGateQuiet
  /\ InitMetricsQuiet
  /\ InitDiffQuiet
  /\ InitBuildQuiet
  /\ InitResolveQuiet
  /\ InitCollapseQuiet
  /\ InitGrafanaQuiet

RECURSIVE MergeEach(_, _, _)
MergeEach(acc, srcs, docs) ==
  IF srcs = <<>> THEN acc
  ELSE MergeEach(MergeSuccess(acc, Head(srcs), Head(docs)), Tail(srcs), Tail(docs))

\* RefreshAllSources: fs.nodeCommMap = nodeCommMap
RefreshAllSources_NodeCommMap ==
  /\ opc = "merge"
  /\ omap' = MergeEach(MergeStart, osrcs, odocs).nodeCommMap
  /\ opc' = "merged"
  /\ UNCHANGED <<cycleVars, probeVars, fanoutVars, lockVars, shutdownVars, ingestVars, osrcs, odocs, oids, gateVars, metricsVars, diffVars, buildVars,
                 resolveVars, collapseVars, grafanaVars, fedVars, refVars, clientVars,
                 domVars, hubVars, handlerVars, bcastVars, histVars>>

\* GrafanaInfoForNode for every node id of the snapshot
GrafanaInfoForNode_Call ==
  /\ opc = "merged"
  /\ oids' = [id \in DOMAIN omap |-> GrafanaInfoForNode(omap, EmptyMap, id).originalID]
  /\ opc' = "done"
  /\ UNCHANGED <<cycleVars, probeVars, fanoutVars, lockVars, shutdownVars, ingestVars, osrcs, odocs, omap, gateVars, metricsVars, diffVars, buildVars,
                 resolveVars, collapseVars, grafanaVars, fedVars, refVars, clientVars,
                 domVars, hubVars, handlerVars, bcastVars, histVars>>

NextOriginal == RefreshAllSources_NodeCommMap \/ GrafanaInfoForNode_Call

SpecOriginal == InitOriginal /\ [][NextOriginal]_vars

(***************************************************************************)
(* One file of node records, in one of the three formats, read by          *)
(* store.Store.Refresh (single-community mode) or fetched and merged by    *)
(* Store.RefreshAllSources (federation mode).  Store.Refresh decodes every *)
(* file as store.MeshviewerData, so it is given files of that format.      *)
(***************************************************************************)
MaxFileRecords == 3

\* what a file says of one node, whatever the format spells it like; a
\* nodelist has no gateway flag
FileRecord(id, online, gw, ncli) ==
  [ID |-> id, Name |-> id, Online |-> online, Gateway |-> gw, Clients |-> ncli]

FileRecords ==
  {FileRecord("n1", TRUE, FALSE, 5), FileRecord("n2", FALSE, FALSE, 0),
   FileRecord("gw", TRUE, TRUE, 0), FileRecord("", TRUE, FALSE, 1),
   FileRecord("", TRUE, TRUE, 0)}

\* the files: no node id twice
Files ==
  {f \in SeqsUpTo(FileRecords, MaxFileRecords) :
     \A i, j \in 1..Len(f) : (i # j /\ f[i].ID # "") => f[i].ID # f[j].ID}

\* json.Unmarshal(body, &raw) of a file with node_id, hostname, is_online, ...
UnmarshalMeshviewer(file) ==
  MeshviewerData([i \in 1..Len(file) |->
                    RawNode(file[i].ID, file[i].Name, file[i].Online, file[i].Gateway,
                            file[i].Clients, "")],
                 <<>>)

\* ParseNodelistToMeshviewer: the records with an id, no links
ParseNodelistToMeshviewer(file) ==
  LET kept == SelectSeq(file, LAMBDA n : n.ID # "")
  IN MeshviewerData([i \in 1..Len(kept) |->
                       RawNode(kept[i].ID, kept[i].Name, kept[i].Online, FALSE,
                               kept[i].Clients, "")],
                    <<>>)

\* the switch over src.DataType of Store.fetchSource, for a body that was read
DecodeSource(dataType, file) ==
  CASE dataType = "meshviewer" -> [err |-> FALSE, data |-> UnmarshalMeshviewer(file)]
    [] dataType = "nodelist" -> [err |-> FALSE, data |-> ParseNodelistToMeshviewer(file)]
    [] OTHER -> FetchError

IngestSource(dataType) == CommunitySource("x", <<"x">>, UX, dataType, NoURL, <<>>)

InitIngest ==
  /\ InitCycleQuiet
  /\ InitProbeQuiet
  /\ InitFanoutQuiet
  /\ InitLocksQuiet
  /\ InitShutdownQuiet
  /\ ipc = "fetch"
  /\ \/ imode = "single" /\ itype = "meshviewer"
     \/ imode = "federation" /\ itype \in {"meshviewer", "nodelist", "nodes"}
  /\ ifile \in Files
  /\ isnap = EmptySnapshot
  /\ InitFresh
  /\ InitIdle
  /\ InitStoreIdle
  /\ InitGateQuiet
  /\ InitMetricsQuiet
  /\ InitDiffQuiet
  /\ InitBuildQuiet
  /\ InitResolveQuiet
  /\ InitCollapseQuiet
  /\ InitGrafanaQuiet
  /\ InitOriginalQuiet

\* store.Store.Refresh: decode, ProcessData, s.snapshot = snap
Refresh_Ingest ==
  /\ ipc = "fetch"
  /\ imode = "single"
  /\ isnap' = ProcessData(UnmarshalMeshviewer(ifile))
  /\ ipc' = "done"
  /\ UNCHANGED <<cycleVars, probeVars, fanoutVars, lockVars, shutdownVars, imode, itype, ifile, gateVars, metricsVars, diffVars, buildVars,
                 resolveVars, collapseVars, grafanaVars, originalVars, fedVars, refVars,
                 clientVars, domVars, hubVars, handlerVars, bcastVars, histVars>>

\* Store.RefreshAllSources over the one source: fetch, merge, ProcessData,
\* tags, SetSnapshot
RefreshAllSources_Ingest ==
  /\ ipc = "fetch"
  /\ imode = "federation"
  /\ isnap' =
       Only({TagSnapshot(ProcessData(MeshviewerData(acc.Nodes, acc.Links)), acc.nodeCommMap) :
               acc \in {IF r.err THEN MergeFailure(MergeStart)
                        ELSE MergeSuccess(MergeStart, IngestSource(itype), r.data) :
                          r \in {DecodeSource(itype, ifile)}}})
  /\ ipc' = "done"
  /\ UNCHANGED <<cycleVars, probeVars, fanoutVars, lockVars, shutdownVars, imode, itype, ifile, gateVars, metricsVars, diffVars, buildVars,
                 resolveVars, collapseVars, grafanaVars, originalVars, fedVars, refVars,
                 clientVars, domVars, hubVars, handlerVars, bcastVars, histVars>>

NextIngest == Refresh_Ingest \/ RefreshAllSources_Ingest

SpecIngest == InitIngest /\ [][NextIngest]_vars

(***************************************************************************)
(* Shutdown: main receives a signal while the refresh loop runs and a      *)
(* browser may be connected to /api/events.  The store was restored from   *)
(* the cache of community z and the background refresh is over.            *)
(***************************************************************************)
\* the program has not ended
Running == mainpc # "exited"

\* the frame of the steps of main
MainFrame ==
  UNCHANGED <<cycleVars, probeVars, fanoutVars, lockVars, gateVars, metricsVars, diffVars, buildVars, resolveVars, collapseVars,
              grafanaVars, originalVars, ingestVars, fedVars, refVars, clientVars,
              domVars, hubVars, handlerVars, bcastVars, histVars>>

\* <-sigCh; server.Shutdown(shutdownCtx) closes the listeners
Main_Signal ==
  /\ mainpc = "serving"
  /\ mainpc' = "shutdown"
  /\ UNCHANGED <<ctxDone, loopReturned>>
  /\ MainFrame

\* server.Shutdown returns: no connection is active any more, or the five
\* seconds of shutdownCtx are over
Main_ShutdownReturns ==
  /\ mainpc = "shutdown"
  /\ mainpc' = "defers"
  /\ UNCHANGED <<ctxDone, loopReturned>>
  /\ MainFrame

\* main returns: defer shutdownCancel(), defer cancel()
Main_Cancel ==
  /\ mainpc = "defers"
  /\ ctxDone' = TRUE
  /\ mainpc' = "return"
  /\ UNCHANGED loopReturned
  /\ MainFrame

\* the program ends with the return of main; no goroutine runs on
Main_Exit ==
  /\ mainpc = "return"
  /\ mainpc' = "exited"
  /\ UNCHANGED <<ctxDone, loopReturned>>
  /\ MainFrame

\* case <-ctx.Done(): return, with the deferred dataTicker.Stop() and
\* discoveryTicker.Stop()
Loop_Done ==
  /\ Running
  /\ fpc["loop"] = "idle"
  /\ ctxDone
  /\ ~loopReturned
  /\ loopReturned' = TRUE
  /\ UNCHANGED <<mainpc, ctxDone>>
  /\ MainFrame

InitShutdown ==
  /\ InitUnitsQuiet
  /\ InitStoreRestored(CacheZ)
  /\ fpc = [p \in Procs |-> Rest(p)]
  /\ InitLocals
  /\ fticks = MaxStartupTicks
  /\ rsnap = 0
  /\ view = EmptyMap
  /\ cload = "none"
  /\ capplied = 0
  /\ InitFresh
  /\ InitIdle

\* the steps of main after the signal
MainSteps == Main_ShutdownReturns \/ Main_Cancel \/ Main_Exit

\* the steps of a pass of the refresh loop
LoopSteps ==
  \/ \E order \in Arrival(Len(fsSources)) : \E results \in FetchAll(fsSources) :
       RefreshAllSources_Merge("loop", order, results)
  \/ RefreshAllSources_DomainNames("loop")
  \/ RefreshAllSources_ProcessData("loop")
  \/ RefreshAllSources_Tag("loop")
  \/ RefreshAllSources_SetSnapshot("loop")
  \/ RefreshAllSources_SaveState("loop")
  \/ Refresher_Broadcast("loop")
  \/ Broadcast_RLock("loop")
  \/ \E ch \in btodo["loop"] : Broadcast_Send("loop", ch)
  \/ Broadcast_RUnlock("loop")
  \/ Refresher_Return("loop")

\* the steps of the handler of /api/events that do not wait for its client
HandlerSteps ==
  \/ HandleSSE_Receive(Browser)
  \/ Unsubscribe_Delete(Browser)
  \/ Unsubscribe_Close(Browser)

NextShutdown ==
  \/ Main_Signal
  \/ MainSteps
  \/ Loop_Done
  \/ Running /\ ~loopReturned /\ Loop_DataTick
  \/ Running /\ LoopSteps
  \/ Running /\ mainpc = "serving" /\ HandleSSE_Subscribe(Browser)
  \/ Running /\ HandleSSE_Disconnect(Browser)
  \/ Running /\ HandlerSteps

\* the timeout of Shutdown and the Go scheduler: main goes on once the
\* signal has come, and a goroutine that can take a step takes it as long
\* as the program runs.  Nothing makes a signal come, a ticker fire or a
\* browser disconnect.
SpecShutdown ==
  /\ InitShutdown
  /\ [][NextShutdown]_vars
  /\ WF_vars(MainSteps)
  /\ WF_vars(Loop_Done)
  /\ WF_vars(Running /\ LoopSteps)
  /\ WF_vars(Running /\ HandlerSteps)

(***************************************************************************)
(* The three locks: store.Store.mu (the snapshot), federation.Store.fedMu  *)
(* (communities, sources, grafanaCache, nodeCommMap) and sse.Hub.mu (the   *)
(* subscribers).  Every goroutine is the sequence of lock and channel      *)
(* operations its code executes; what it computes in between is left out.  *)
(***************************************************************************)
Locks == {"mu", "fedMu", "hubMu"}

Op(kind, target) == [op |-> kind, on |-> target]

\* store.Store.GetSnapshot: RLock, defer RUnlock
GetSnapshot_Locks == <<Op("RLock", "mu"), Op("RUnlock", "mu")>>

\* store.Store.SetSnapshot
SetSnapshot_Locks == <<Op("Lock", "mu"), Op("Unlock", "mu")>>

\* GetCommunities, GetSources, GetGrafanaCache, GrafanaInfoForNode: RLock,
\* defer RUnlock, and a body that calls nothing
FedGetter_Locks == <<Op("RLock", "fedMu"), Op("RUnlock", "fedMu")>>

\* the three assignments under fedMu.Lock of RestoreState, of
\* DiscoverAndRefresh and of RefreshAllSources
FedAssign_Locks == <<Op("Lock", "fedMu"), Op("Unlock", "fedMu")>>

\* a SaveState that reads the snapshot before it gives fedMu back
SaveStateNested_Locks ==
  <<Op("RLock", "fedMu")>> \o GetSnapshot_Locks \o <<Op("RUnlock", "fedMu")>>

\* Store.SaveState: the three fields under fedMu.RLock, then GetSnapshot
SaveState_Locks == FedGetter_Locks \o GetSnapshot_Locks

\* Store.RestoreState
RestoreState_Locks == FedAssign_Locks \o SetSnapshot_Locks

\* Store.RefreshAllSources: GetSources, the fetch goroutines, range ch,
\* GetCommunities, nodeCommMap, SetSnapshot, SaveState
RefreshAllSources_Locks ==
  FedGetter_Locks \o <<Op("spawn", "ch"), Op("range", "ch")>> \o FedGetter_Locks
    \o FedAssign_Locks \o SetSnapshot_Locks \o SaveState_Locks

\* Store.DiscoverAndRefresh
DiscoverAndRefresh_Locks == FedAssign_Locks \o RefreshAllSources_Locks

\* Hub.ClientCount
ClientCount_Locks == <<Op("RLock", "hubMu"), Op("RUnlock", "hubMu")>>

\* Hub.Broadcast: select { case ch <- data: default: } under RLock
Broadcast_Locks == <<Op("RLock", "hubMu"), Op("trysend", "client"), Op("RUnlock", "hubMu")>>

\* Hub.Subscribe
Subscribe_Locks == <<Op("Lock", "hubMu"), Op("Unlock", "hubMu")>>

\* Hub.Unsubscribe
Unsubscribe_Locks == <<Op("Lock", "hubMu"), Op("Unlock", "hubMu"), Op("close", "client")>>

\* HandleSSE
HandleSSE_Locks ==
  Subscribe_Locks \o ClientCount_Locks \o <<Op("recv", "client")>>
    \o Unsubscribe_Locks \o ClientCount_Locks

\* one pass of Store.RunRefreshLoop and the background goroutine of main
Tick_Locks(refresh) ==
  GetSnapshot_Locks \o refresh \o GetSnapshot_Locks \o ClientCount_Locks \o Broadcast_Locks

\* the goroutine RefreshAllSources starts for a source
FetchWorker_Locks == <<Op("send", "sem"), Op("send", "ch"), Op("recv", "sem")>>

\* the fetch goroutine of the pass of each refresher
WorkerOf == [bg |-> "fetch_bg", loop |-> "fetch_loop"]

LockGoroutines == {"main", "bg", "loop", "api", "sse", "fetch_bg", "fetch_loop"}

\* what each goroutine runs: main restores the cache, the background
\* goroutine discovers and refreshes, the loop follows a data tick, the
\* handler serves /api/nodes, /api/communities or /api/metrics/
Scripts(g) ==
  CASE g = "main" -> {RestoreState_Locks}
    [] g = "bg" -> {Tick_Locks(DiscoverAndRefresh_Locks)}
    [] g = "loop" -> {Tick_Locks(RefreshAllSources_Locks)}
    [] g = "api" -> {GetSnapshot_Locks,
                     FedGetter_Locks \o FedGetter_Locks \o FedGetter_Locks,
                     FedGetter_Locks}
    [] g = "sse" -> {HandleSSE_Locks}
    [] OTHER -> {FetchWorker_Locks}

LockFrame ==
  UNCHANGED <<cycleVars, probeVars, fanoutVars, gateVars, metricsVars, diffVars, buildVars, resolveVars, collapseVars,
              grafanaVars, originalVars, ingestVars, shutdownVars, fedVars, refVars,
              clientVars, domVars, hubVars, handlerVars, bcastVars, histVars>>

InitLocks ==
  /\ InitCycleQuiet
  /\ InitProbeQuiet
  /\ InitFanoutQuiet
  /\ lscript \in [LockGoroutines -> UNION {Scripts(g) : g \in LockGoroutines}]
  /\ \A g \in LockGoroutines : lscript[g] \in Scripts(g)
  /\ lpc = [g \in LockGoroutines |-> 1]
  /\ lkWriter = [l \in Locks |-> {}]
  /\ lkReaders = [l \in Locks |-> [g \in LockGoroutines |-> 0]]
  /\ lkPending = [l \in Locks |-> {}]
  /\ InitGateQuiet
  /\ InitMetricsQuiet
  /\ InitDiffQuiet
  /\ InitBuildQuiet
  /\ InitResolveQuiet
  /\ InitCollapseQuiet
  /\ InitGrafanaQuiet
  /\ InitOriginalQuiet
  /\ InitIngestQuiet
  /\ InitShutdownQuiet
  /\ InitFresh
  /\ InitIdle
  /\ InitStoreIdle

LockDone(g) == lpc[g] > Len(lscript[g])

\* the operation g is at
LockAt(g) == IF LockDone(g) THEN Op("none", "") ELSE lscript[g][lpc[g]]

\* g has executed an operation of this kind
LockPassed(g, kind) == \E i \in 1..(lpc[g] - 1) : lscript[g][i].op = kind

\* main restores the state before it starts a goroutine or the server; a
\* fetch goroutine is started by the pass of its refresher
LockStarted(g) ==
  \/ g = "main"
  \/ g \in {"bg", "loop", "api", "sse"} /\ LockDone("main")
  \/ \E r \in DOMAIN WorkerOf : WorkerOf[r] = g /\ LockPassed(r, "spawn")

\* the locks g holds
LockHeld(g) == {l \in Locks : g \in lkWriter[l] \/ lkReaders[l][g] > 0}

LockAdvance(g) == lpc' = [lpc EXCEPT ![g] = @ + 1]

\* l.Lock(): the writer announces itself, which keeps new readers out ...
RWMutex_LockAnnounce(g) ==
  /\ LockStarted(g)
  /\ LockAt(g).op = "Lock"
  /\ g \notin lkPending[LockAt(g).on]
  /\ lkPending' = [lkPending EXCEPT ![LockAt(g).on] = @ \cup {g}]
  /\ UNCHANGED <<lpc, lscript, lkWriter, lkReaders>>
  /\ LockFrame

\* ... and returns when no writer and no reader holds the lock
RWMutex_Lock(g) ==
  /\ LockAt(g).op = "Lock"
  /\ g \in lkPending[LockAt(g).on]
  /\ lkWriter[LockAt(g).on] = {}
  /\ \A r \in LockGoroutines : lkReaders[LockAt(g).on][r] = 0
  /\ lkWriter' = [lkWriter EXCEPT ![LockAt(g).on] = {g}]
  /\ lkPending' = [lkPending EXCEPT ![LockAt(g).on] = @ \ {g}]
  /\ LockAdvance(g)
  /\ UNCHANGED <<lscript, lkReaders>>
  /\ LockFrame

RWMutex_Unlock(g) ==
  /\ LockAt(g).op = "Unlock"
  /\ lkWriter' = [lkWriter EXCEPT ![LockAt(g).on] = @ \ {g}]
  /\ LockAdvance(g)
  /\ UNCHANGED <<lscript, lkReaders, lkPending>>
  /\ LockFrame

\* l.RLock() returns when no writer holds the lock and none waits for it
RWMutex_RLock(g) ==
  /\ LockStarted(g)
  /\ LockAt(g).op = "RLock"
  /\ lkWriter[LockAt(g).on] = {}
  /\ lkPending[LockAt(g).on] = {}
  /\ lkReaders' = [lkReaders EXCEPT ![LockAt(g).on][g] = @ + 1]
  /\ LockAdvance(g)
  /\ UNCHANGED <<lscript, lkWriter, lkPending>>
  /\ LockFrame

RWMutex_RUnlock(g) ==
  /\ LockAt(g).op = "RUnlock"
  /\ lkReaders' = [lkReaders EXCEPT ![LockAt(g).on][g] = @ - 1]
  /\ LockAdvance(g)
  /\ UNCHANGED <<lscript, lkWriter, lkPending>>
  /\ LockFrame

\* for r := range ch ends when the fetch goroutines are through and ch is
\* closed
Goroutine_Range(g) ==
  /\ LockAt(g).op = "range"
  /\ LockDone(WorkerOf[g])
  /\ LockAdvance(g)
  /\ UNCHANGED <<lscript, lkWriter, lkReaders, lkPending>>
  /\ LockFrame

\* go func, a channel send or receive, close
Goroutine_Channel(g) ==
  /\ LockStarted(g)
  /\ LockAt(g).op \in {"spawn", "send", "trysend", "recv", "close"}
  /\ LockAdvance(g)
  /\ UNCHANGED <<lscript, lkWriter, lkReaders, lkPending>>
  /\ LockFrame

NextLocks ==
  \E g \in LockGoroutines :
    \/ RWMutex_LockAnnounce(g)
    \/ RWMutex_Lock(g)
    \/ RWMutex_Unlock(g)
    \/ RWMutex_RLock(g)
    \/ RWMutex_RUnlock(g)
    \/ Goroutine_Range(g)
    \/ Goroutine_Channel(g)

SpecLocks == InitLocks /\ [][NextLocks]_vars

(***************************************************************************)
(* The fan-outs: the caller starts one goroutine per community or source   *)
(* (wg.Add(1); go func), starts a goroutine that closes ch after           *)
(* wg.Wait(), and ranges over ch.  Each goroutine takes a slot of sem,     *)
(* sends its results on ch, gives the slot back and calls wg.Done.         *)
(***************************************************************************)
\* the number of communities or sources of a fan-out
MaxFanWorkers == 3
\* the capacity of sem: 50 (40 for the datasource probes) in the program, so
\* small here that goroutines wait for a slot
MaxFanSem == 2
\* the results of one community in ResolveBestSources: one per meshviewer
\* URL that answers, more than the three places ch has per community
MaxFanResults == 5

\* RefreshAllSources: ch has a place per source, every goroutine sends once.
\* DiscoverGrafanaURLs: a place per goroutine, which sends once or not at all.
\* ResolveBestSources: three places per community, a goroutine sends once
\* per source it found, or once ok: false.
FanConfig(kind, n, semCap, results) ==
  [kind |-> kind, n |-> n, semCap |-> semCap,
   chCap |-> IF kind = "resolve" THEN n * 3 ELSE n, results |-> results]

FanConfigs ==
  UNION {UNION {
    {FanConfig("refresh", n, c, [w \in 1..n |-> 1])}
      \cup {FanConfig("grafana", n, c, r) : r \in [1..n -> {0, 1}]}
      \cup {FanConfig("resolve", n, c, r) : r \in [1..n -> {1, MaxFanResults}]}
    : c \in 1..MaxFanSem} : n \in 1..MaxFanWorkers}

FanWorkers == 1..fanCfg.n

\* len(ch)
RECURSIVE FanChLen(_)
FanChLen(n) == IF n = 0 THEN 0 ELSE fanCh[n] + FanChLen(n - 1)

FanoutFrame ==
  UNCHANGED <<cycleVars, probeVars, lockVars, gateVars, metricsVars, diffVars, buildVars, resolveVars, collapseVars,
              grafanaVars, originalVars, ingestVars, shutdownVars, fedVars, refVars,
              clientVars, domVars, hubVars, handlerVars, bcastVars, histVars>>

InitFanout ==
  /\ InitCycleQuiet
  /\ InitProbeQuiet
  /\ fanCfg \in FanConfigs
  /\ fanCaller = "spawn"
  /\ fanSpawned = 0
  /\ fanW = [w \in FanWorkers |-> "unborn"]
  /\ fanLeft = fanCfg.results
  /\ fanSem = 0
  /\ fanCh = [w \in FanWorkers |-> 0]
  /\ fanClosed = 0
  /\ fanCloser = "unborn"
  /\ fanCollected = [w \in FanWorkers |-> 0]
  /\ fanPanic = FALSE
  /\ InitLocksQuiet
  /\ InitGateQuiet
  /\ InitMetricsQuiet
  /\ InitDiffQuiet
  /\ InitBuildQuiet
  /\ InitResolveQuiet
  /\ InitCollapseQuiet
  /\ InitGrafanaQuiet
  /\ InitOriginalQuiet
  /\ InitIngestQuiet
  /\ InitShutdownQuiet
  /\ InitFresh
  /\ InitIdle
  /\ InitStoreIdle

\* a wait group whose Add is called by the goroutine itself, once it has its
\* slot of sem
WaitGroupCounterAddInside == Cardinality({w \in FanWorkers : fanW[w] = "run"})

\* the counter of wg: Add(1) by the caller before each go, Done by each
\* goroutine as its last deferred call
WaitGroupCounter == fanSpawned - Cardinality({w \in FanWorkers : fanW[w] = "done"})

\* wg.Add(1); go func(...) { ... }(c)
Fanout_Go ==
  /\ fanCaller = "spawn"
  /\ fanSpawned < fanCfg.n
  /\ fanSpawned' = fanSpawned + 1
  /\ fanW' = [fanW EXCEPT ![fanSpawned + 1] = "sem"]
  /\ UNCHANGED <<fanCfg, fanCaller, fanLeft, fanSem, fanCh, fanClosed, fanCloser,
                 fanCollected, fanPanic>>
  /\ FanoutFrame

\* go func() { wg.Wait(); close(ch) }() after the loop
Fanout_GoCloser ==
  /\ fanCaller = "spawn"
  /\ fanSpawned = fanCfg.n
  /\ fanCaller' = "range"
  /\ fanCloser' = "wait"
  /\ UNCHANGED <<fanCfg, fanSpawned, fanW, fanLeft, fanSem, fanCh, fanClosed,
                 fanCollected, fanPanic>>
  /\ FanoutFrame

\* sem <- struct{}{}
Worker_Acquire(w) ==
  /\ fanW[w] = "sem"
  /\ fanSem < fanCfg.semCap
  /\ fanSem' = fanSem + 1
  /\ fanW' = [fanW EXCEPT ![w] = "run"]
  /\ UNCHANGED <<fanCfg, fanCaller, fanSpawned, fanLeft, fanCh, fanClosed, fanCloser,
                 fanCollected, fanPanic>>
  /\ FanoutFrame

\* ch <- result{...}: waits for a place in ch; panics if ch is closed
Worker_Send(w) ==
  /\ fanW[w] = "run"
  /\ fanLeft[w] > 0
  /\ fanClosed > 0 \/ FanChLen(fanCfg.n) < fanCfg.chCap
  /\ fanLeft' = [fanLeft EXCEPT ![w] = @ - 1]
  /\ IF fanClosed > 0
       THEN fanPanic' = TRUE /\ UNCHANGED fanCh
       ELSE fanCh' = [fanCh EXCEPT ![w] = @ + 1] /\ UNCHANGED fanPanic
  /\ UNCHANGED <<fanCfg, fanCaller, fanSpawned, fanW, fanSem, fanClosed, fanCloser,
                 fanCollected>>
  /\ FanoutFrame

\* the goroutine returns: <-sem, wg.Done()
Worker_Return(w) ==
  /\ fanW[w] = "run"
  /\ fanLeft[w] = 0
  /\ fanSem' = fanSem - 1
  /\ fanW' = [fanW EXCEPT ![w] = "done"]
  /\ UNCHANGED <<fanCfg, fanCaller, fanSpawned, fanLeft, fanCh, fanClosed, fanCloser,
                 fanCollected, fanPanic>>
  /\ FanoutFrame

\* wg.Wait() returns; close(ch)
Closer_Close ==
  /\ fanCloser = "wait"
  /\ WaitGroupCounter = 0
  /\ fanClosed' = fanClosed + 1
  /\ fanCloser' = "done"
  /\ UNCHANGED <<fanCfg, fanCaller, fanSpawned, fanW, fanLeft, fanSem, fanCh,
                 fanCollected, fanPanic>>
  /\ FanoutFrame

\* for r := range ch: one result.  Results are only counted, so the order in
\* which the results of different goroutines leave ch is not kept.
Fanout_Receive(w) ==
  /\ fanCaller = "range"
  /\ fanCh[w] > 0
  /\ fanCollected' = [fanCollected EXCEPT ![w] = @ + 1]
  /\ fanCh' = [fanCh EXCEPT ![w] = @ - 1]
  /\ UNCHANGED <<fanCfg, fanCaller, fanSpawned, fanW, fanLeft, fanSem, fanClosed,
                 fanCloser, fanPanic>>
  /\ FanoutFrame

\* for r := range ch ends: ch is closed and empty
Fanout_RangeEnds ==
  /\ fanCaller = "range"
  /\ FanChLen(fanCfg.n) = 0
  /\ fanClosed > 0
  /\ fanCaller' = "done"
  /\ UNCHANGED <<fanCfg, fanSpawned, fanW, fanLeft, fanSem, fanCh, fanClosed,
                 fanCloser, fanCollected, fanPanic>>
  /\ FanoutFrame

NextFanout ==
  \/ Fanout_Go
  \/ Fanout_GoCloser
  \/ \E w \in FanWorkers : Worker_Acquire(w)
  \/ \E w \in FanWorkers : Worker_Send(w)
  \/ \E w \in FanWorkers : Worker_Return(w)
  \/ Closer_Close
  \/ \E w \in FanWorkers : Fanout_Receive(w)
  \/ Fanout_RangeEnds

\* the Go scheduler: a goroutine that can take a step takes one; every probe
\* and fetch ends, by its answer or by the timeout of its client
SpecFanout == InitFanout /\ [][NextFanout]_vars /\ WF_vars(NextFanout)

(***************************************************************************)
(* federation.ResolveBestSources with every stage of the goroutine of a    *)
(* community: the meshviewer URLs, the nodelist URLs, the richer source     *)
(* next to a nodelist, the URLs derived from the nodelist directories.     *)
(***************************************************************************)
\* the number of resolve passes
MaxResolvePasses == 2

\* ProbeURL with its second result: ok; the host if the request failed with
\* a timeout, a refused connection, a DNS or a TLS error; req: a request was
\* made
ProbeURLHost(world, u) ==
  IF ~IsSafeURL(u) THEN [ok |-> FALSE, deadHost |-> "", req |-> FALSE]
  ELSE IF u \in world.fatal THEN [ok |-> FALSE, deadHost |-> u.host, req |-> TRUE]
  ELSE [ok |-> u \in world.alive, deadHost |-> "", req |-> TRUE]

\* the locals of the goroutine: found, deadHosts, what the last probe(u)
\* returned, the requests made so far and the sources sent on ch so far
ProbeStart == [found |-> FALSE, dead |-> {}, ok |-> FALSE, probes |-> <<>>, sources |-> <<>>]

\* probe := func(u string) bool
Probe(st, world, u) ==
  IF u.host \in st.dead THEN [st EXCEPT !.ok = FALSE]
  ELSE Only({[st EXCEPT !.ok = pr.ok,
                        !.probes = IF pr.req THEN Append(@, u) ELSE @,
                        !.dead = IF pr.deadHost # "" THEN @ \cup {pr.deadHost} ELSE @] :
               pr \in {ProbeURLHost(world, u)}})

\* ch <- result{source: CommunitySource{...}, ok: true}
SendSource(st, c, u, dtype) ==
  [st EXCEPT !.sources = Append(@, CommunitySource(c.Key, c.AllKeys, u, dtype,
                                                  c.GrafanaURL, CollectMapBases(c)))]

\* strings.HasSuffix(u, "/nodes.json")
IsNodesJSON(u) == Len(u.path) > 0 /\ u.path[Len(u.path)] = "nodes.json"

\* base[:strings.LastIndex(base, "/")]
DirOf(u) == [u EXCEPT !.path = SubSeq(@, 1, Len(@) - 1)]

\* "Probe ALL meshviewer URLs"
RECURSIVE ProbeMeshviewerURLs(_, _, _, _)
ProbeMeshviewerURLs(st, world, c, urls) ==
  IF urls = <<>> THEN st
  ELSE Only({ProbeMeshviewerURLs(
               IF p.ok
                 THEN [SendSource(p, c, Head(urls),
                                  IF IsNodesJSON(Head(urls)) THEN "nodes" ELSE "meshviewer")
                         EXCEPT !.found = TRUE]
                 ELSE p,
               world, c, Tail(urls)) :
               p \in {Probe(st, world, Head(urls))}})

\* "Only try nodelists if no meshviewer source worked": one is enough
RECURSIVE ProbeNodelistURLs(_, _, _, _)
ProbeNodelistURLs(st, world, c, urls) ==
  IF urls = <<>> THEN st
  ELSE Only({IF p.ok THEN [SendSource(p, c, Head(urls), "nodelist") EXCEPT !.found = TRUE]
             ELSE ProbeNodelistURLs(p, world, c, Tail(urls)) :
               p \in {Probe(st, world, Head(urls))}})

\* the second candidate, nodes.json, after the first did not answer
ProbeSecondCandidate(p1, world, c, nodes, t1) ==
  Only({IF p2.ok
          THEN [st |-> SendSource(p2, c, nodes, "nodes"), tried |-> t1 \cup {nodes},
                hit |-> TRUE]
          ELSE [st |-> p2, tried |-> t1 \cup {nodes}, hit |-> FALSE] :
          p2 \in {IF nodes \in t1 THEN [p1 EXCEPT !.ok = FALSE]
                  ELSE Probe(p1, world, nodes)}})

\* meshviewer.json and nodes.json in the directory of the nodelist u, each
\* unless it was tried; hit: one of them answered and was sent
ProbeCandidates(st, world, c, u, tried) ==
  LET mv == URLJoin(DirOf(u), "meshviewer.json")
      nodes == URLJoin(DirOf(u), "nodes.json")
  IN Only({IF p1.ok
             THEN [st |-> SendSource(p1, c, mv, "meshviewer"), tried |-> tried \cup {mv},
                   hit |-> TRUE]
             ELSE ProbeSecondCandidate(p1, world, c, nodes, tried \cup {mv}) :
             p1 \in {IF mv \in tried THEN [st EXCEPT !.ok = FALSE]
                     ELSE Probe(st, world, mv)}})

\* "For nodelist-only communities, also try to find a richer source": every
\* nodelist directory is tried, found stays as it is
RECURSIVE ProbeRicher(_, _, _, _, _)
ProbeRicher(st, world, c, urls, tried) ==
  IF urls = <<>> THEN st
  ELSE Only({ProbeRicher(r.st, world, c, Tail(urls), r.tried) :
               r \in {ProbeCandidates(st, world, c, Head(urls), tried)}})

\* "Last resort: derive meshviewer/nodes.json URLs from nodelist base
\* paths": the first that answers ends the loop
RECURSIVE ProbeDerived(_, _, _, _, _)
ProbeDerived(st, world, c, urls, tried) ==
  IF urls = <<>> THEN st
  ELSE Only({IF r.hit THEN [r.st EXCEPT !.found = TRUE]
             ELSE ProbeDerived(r.st, world, c, Tail(urls), r.tried) :
               r \in {ProbeCandidates(st, world, c, Head(urls), tried)}})

\* the two last stages of the goroutine
ResolveFromNodelists(s2, world, c) ==
  Only({IF ~s3.found
          THEN ProbeDerived(s3, world, c, c.NodelistURLs, SeqToSet(c.MeshviewerURLs))
          ELSE s3 :
          s3 \in {IF s2.found /\ Len(c.MeshviewerURLs) = 0
                    THEN ProbeRicher(s2, world, c, c.NodelistURLs, {}) ELSE s2}})

\* the goroutine of community c
ResolveCommunity(world, c) ==
  Only({ResolveFromNodelists(s2, world, c) :
          s2 \in {Only({IF ~s1.found THEN ProbeNodelistURLs(s1, world, c, c.NodelistURLs)
                        ELSE s1 :
                          s1 \in {ProbeMeshviewerURLs(ProbeStart, world, c,
                                                      c.MeshviewerURLs)}})}})

\* community a lists one nodelist; community b lists a meshviewer URL on the
\* host of a's nodelist and two nodelists in one directory of another host
NA == URL("https", "map.x.example", <<"a", "nodelist.json">>)
MB == URL("https", "map.x.example", <<"b", "meshviewer.json">>)
LB1 == URL("https", "map.y.example", <<"l", "nodelist.json">>)
LB2 == URL("https", "map.y.example", <<"l", "list.json">>)

PA == [Community("a", "A", <<>>, NoURL) EXCEPT !.NodelistURLs = <<NA>>]
PB == [Community("b", "B", <<MB>>, NoURL) EXCEPT !.NodelistURLs = <<LB1, LB2>>]

ProbeCommunities == <<PA, PB>>

ProbeKeys == {"a", "b"}

ProbeCommunity(k) == IF k = "a" THEN PA ELSE PB

\* the URLs derived from the nodelist directories of c
DerivedURLs(c) ==
  UNION {{URLJoin(DirOf(c.NodelistURLs[i]), "meshviewer.json"),
          URLJoin(DirOf(c.NodelistURLs[i]), "nodes.json")} : i \in 1..Len(c.NodelistURLs)}

ProbedURLs ==
  UNION {SeqToSet(c.MeshviewerURLs) \cup SeqToSet(c.NodelistURLs) \cup DerivedURLs(c) :
           c \in {PA, PB}}

\* what the network does in a pass: the URLs that answer 200 with data, and
\* the URL, if any, whose request ends in a host-fatal error
ProbeFatal == {{}, {NA}, {MB}, {LB1}}

ProbeWorlds == {[alive |-> a, fatal |-> f] : a \in SUBSET ProbedURLs, f \in ProbeFatal}

ProbeFrame ==
  UNCHANGED <<cycleVars, fanoutVars, lockVars, gateVars, metricsVars, diffVars, buildVars, resolveVars,
              collapseVars, grafanaVars, originalVars, ingestVars, shutdownVars, fedVars,
              refVars, clientVars, domVars, hubVars, handlerVars, bcastVars, histVars>>

\* the goroutines of a pass start
ProbePassStarts(world) ==
  /\ pphase' = "probing"
  /\ pworld' = world
  /\ pres' = [k \in ProbeKeys |-> ResolveCommunity(world, ProbeCommunity(k))]
  /\ ppos' = [k \in ProbeKeys |-> 1]
  /\ pdead' = {}
  /\ plate' = {}

InitProbe ==
  /\ InitCycleQuiet
  /\ ppass = 1
  /\ pphase = "probing"
  /\ pworld \in ProbeWorlds
  /\ pres = [k \in ProbeKeys |-> ResolveCommunity(pworld, ProbeCommunity(k))]
  /\ ppos = [k \in ProbeKeys |-> 1]
  /\ pdead = {}
  /\ plate = {}
  /\ pprevdead = {}
  /\ psources = <<>>
  /\ InitFanoutQuiet
  /\ InitLocksQuiet
  /\ InitGateQuiet
  /\ InitMetricsQuiet
  /\ InitDiffQuiet
  /\ InitBuildQuiet
  /\ InitResolveQuiet
  /\ InitCollapseQuiet
  /\ InitGrafanaQuiet
  /\ InitOriginalQuiet
  /\ InitIngestQuiet
  /\ InitShutdownQuiet
  /\ InitFresh
  /\ InitIdle
  /\ InitStoreIdle

\* the orders in which the values of two goroutines can arrive on ch
RECURSIVE Interleavings(_, _)
Interleavings(s, t) ==
  IF s = <<>> THEN {t}
  ELSE IF t = <<>> THEN {s}
  ELSE {<<Head(s)>> \o r : r \in Interleavings(Tail(s), t)}
         \cup {<<Head(t)>> \o r : r \in Interleavings(s, Tail(t))}

\* the goroutine of community k makes its next probe
ResolveBestSources_Probe(k) ==
  /\ pphase = "probing"
  /\ ppos[k] <= Len(pres[k].probes)
  /\ LET u == pres[k].probes[ppos[k]]
     IN /\ plate' = IF u.host \in pdead THEN plate \cup {<<k, u>>} ELSE plate
        /\ pdead' = IF ProbeURLHost(pworld, u).deadHost # ""
                      THEN pdead \cup {u.host} ELSE pdead
  /\ ppos' = [ppos EXCEPT ![k] = @ + 1]
  /\ UNCHANGED <<ppass, pphase, pworld, pres, pprevdead, psources>>
  /\ ProbeFrame

\* every goroutine has returned, ch is closed: the sources are collected
\* and de-duplicated by data URL
ResolveBestSources_Return ==
  /\ pphase = "probing"
  /\ \A k \in ProbeKeys : ppos[k] > Len(pres[k].probes)
  /\ pphase' = "idle"
  /\ \E all \in Interleavings(pres["a"].sources, pres["b"].sources) :
       psources' = Dedupe(all, all, <<>>)
  /\ UNCHANGED <<ppass, pworld, pres, ppos, pdead, plate, pprevdead>>
  /\ ProbeFrame

\* the next call of ResolveBestSources: the same files are there, other
\* requests fail
ResolveBestSources_Call ==
  /\ pphase = "idle"
  /\ ppass < MaxResolvePasses
  /\ ppass' = ppass + 1
  /\ pprevdead' = pdead
  /\ \E f \in ProbeFatal : ProbePassStarts([pworld EXCEPT !.fatal = f])
  /\ psources' = <<>>
  /\ ProbeFrame

NextProbe ==
  \/ \E k \in ProbeKeys : ResolveBestSources_Probe(k)
  \/ ResolveBestSources_Return
  \/ ResolveBestSources_Call

SpecProbe == InitProbe /\ [][NextProbe]_vars

(***************************************************************************)
(* Passes of Store.RefreshAllSources over the sources of the communities x *)
(* and y, each followed by its SaveState, and restarts of the program,     *)
(* which begin with Store.RestoreState                                     *)
(***************************************************************************)
MaxCycleOps == 3

\* fs.sources and fs.communities after discovery
CycleSources == CacheS2.state.Sources

CycleCommunities == CacheS2.state.Communities

CycleNone ==
  [op |-> "none", results |-> <<>>, order |-> <<>>, snap |-> EmptySnapshot, disk |-> NoCache]

CycleFrame ==
  UNCHANGED <<probeVars, fanoutVars, lockVars, gateVars, metricsVars, diffVars, buildVars,
              resolveVars, collapseVars, grafanaVars, originalVars, ingestVars, shutdownVars,
              fedVars, refVars, clientVars, domVars, hubVars, handlerVars, bcastVars,
              histVars>>

\* main.go: NewStore, then RestoreState
RestoreState_Start(file) ==
  IF CacheUsable(file)
    THEN ysnap' = RestoredSnapshot(file) /\ ymap' = file.NodeCommMap
    ELSE ysnap' = EmptySnapshot /\ ymap' = EmptyMap

InitCycle ==
  /\ ydisk \in {NoCache, CacheS2.state}
  /\ ysnap = IF CacheUsable(ydisk) THEN RestoredSnapshot(ydisk) ELSE EmptySnapshot
  /\ ymap = IF CacheUsable(ydisk) THEN ydisk.NodeCommMap ELSE EmptyMap
  /\ yops = 0
  /\ ylast = CycleNone
  /\ yprev = CycleNone
  /\ InitProbeQuiet
  /\ InitFanoutQuiet
  /\ InitLocksQuiet
  /\ InitGateQuiet
  /\ InitMetricsQuiet
  /\ InitDiffQuiet
  /\ InitBuildQuiet
  /\ InitResolveQuiet
  /\ InitCollapseQuiet
  /\ InitGrafanaQuiet
  /\ InitOriginalQuiet
  /\ InitIngestQuiet
  /\ InitShutdownQuiet
  /\ InitFresh
  /\ InitIdle
  /\ InitStoreIdle

\* a whole pass: the fetches, the merge in the order of arrival,
\* ProcessData, the tags, fs.nodeCommMap, SetSnapshot, SaveState
RefreshAllSources_Cycle ==
  /\ yops < MaxCycleOps
  /\ \E order \in Arrival(Len(CycleSources)) : \E results \in FetchAll(CycleSources) :
       \E acc \in {MergeAll([acc |-> MergeStart, got |-> <<>>], CycleSources, order,
                            results).acc} :
         \E snap \in {TagSnapshot(ProcessData(MeshviewerData(acc.Nodes, acc.Links)),
                                  acc.nodeCommMap)} :
           /\ ymap' = acc.nodeCommMap
           /\ ysnap' = snap
           /\ ydisk' = SaveState(ydisk, CycleCommunities, CycleSources, acc.nodeCommMap, snap)
           /\ ylast' = [op |-> "refresh", results |-> results, order |-> order,
                        snap |-> ysnap, disk |-> ydisk]
  /\ yprev' = ylast
  /\ yops' = yops + 1
  /\ CycleFrame

\* the program is stopped and started again
RestoreState_Cycle ==
  /\ yops < MaxCycleOps
  /\ RestoreState_Start(ydisk)
  /\ ylast' = [op |-> "restore", results |-> <<>>, order |-> <<>>, snap |-> ysnap,
               disk |-> ydisk]
  /\ yprev' = ylast
  /\ yops' = yops + 1
  /\ UNCHANGED ydisk
  /\ CycleFrame

NextCycle == RefreshAllSources_Cycle \/ RestoreState_Cycle

SpecCycle == InitCycle /\ [][NextCycle]_vars

(***************************************************************************)
(* Properties of the hub                                                   *)
(***************************************************************************)
Ids(msgs) == [i \in 1..Len(msgs) |-> msgs[i].id]

\* C1: no Broadcast ever sends on a channel that Unsubscribe has closed: no
\* send on a closed channel has been executed, and no channel a running
\* range loop is still going to send on is closed.
C1_NoSendOnClosedChannel ==
  /\ ~sentOnClosed
  /\ \A b \in Procs : \A ch \in btodo[b] : ~chanClosed[ch]

\* an Unsubscribe has closed its channel, another Unsubscribe waits for the
\* lock while a Broadcast that started before it is still sending
C1_Witness ==
  \E b \in Procs : \E h1, h2 \in Handlers :
    /\ hpc[h1] = "done" /\ hch[h1] # 0 /\ chanClosed[hch[h1]]
    /\ hpc[h2] = "unsub" /\ hch[h2] \in btodo[b]
    /\ bpc[b] = "send"

\* C2: Broadcast never blocks on a subscriber (in the range loop a step of
\* the broadcaster is always possible); each iteration enqueues the message
\* if the 16-slot buffer has room and otherwise leaves the buffer unchanged,
\* touching no other channel; when the loop ends every registered channel
\* has had exactly one attempt.
C2_NonBlocking ==
  \A b \in Procs :
    bpc[b] = "send" =>
      /\ btodo[b] = {} => ENABLED Broadcast_RUnlock(b)
      /\ \A ch \in btodo[b] : ENABLED Broadcast_Send(b, ch)

C2_SendEffect ==
  \A b \in Procs : \A ch \in btodo[b] :
    (bpc[b] = "send" /\ ch \notin btodo'[b]) =>
      /\ IF Len(chanBuf[ch]) < ChanCap
           THEN chanBuf'[ch] = Append(chanBuf[ch], bmsg[b])
           ELSE chanBuf'[ch] = chanBuf[ch]
      /\ \A other \in DOMAIN chanBuf : other # ch => chanBuf'[other] = chanBuf[other]
      /\ Len(chanBuf'[ch]) <= ChanCap

C2_OneAttemptEach ==
  /\ ~dupAttempt'
  /\ \A b \in Procs :
       (bpc[b] = "send" /\ bpc'[b] = "idle") =>
         \A ch \in clients : <<bmsg[b].id, ch>> \in delivered \cup skipped

C2_BroadcastNeverBlocks ==
  /\ [](C2_NonBlocking)
  /\ [][C2_SendEffect /\ C2_OneAttemptEach]_vars

\* scenario S4: a broadcast was delivered to subscribers 1 and 3 and skipped
\* for subscriber 2 (full); after 2 drained, a later one reached all three
C2_Witness ==
  \E m1, m2 \in (ChanCap + 1)..nbroadcast :
    /\ m1 < m2
    /\ {<<m1, 1>>, <<m1, 3>>} \subseteq delivered
    /\ <<m1, 2>> \in skipped
    /\ Handlers \subseteq {ch \in DOMAIN chanBuf : <<m2, ch>> \in delivered}
    /\ \A b \in Procs : bpc[b] = "idle"
    /\ chanBuf[2] = <<>>

\* C3: there is one order of the broadcasts such that the sequence of
\* messages every subscriber has received is a subsequence of it (no
\* reordering, no duplicate).
C3_ReceivedInBroadcastOrder ==
  \E rank \in [1..nbroadcast -> 1..nbroadcast] :
    \A h \in Handlers :
      \A i, j \in 1..Len(received[h]) :
        i < j => rank[received[h][i].id] < rank[received[h][j].id]

\* C4: the number of registered subscribers never exceeds 1000; a Subscribe
\* made while 1000 are registered returns nil without registering anything
\* and the handler answers 503; a handler that got 503 holds no channel.
C4_CapInvariant ==
  /\ Cardinality(clients) <= 1000
  /\ \A h \in Handlers : hresp[h] = 503 => (hch[h] = 0 /\ hpc[h] = "done")

C4_FullStep ==
  \A h \in Handlers :
    (hpc[h] = "start" /\ hpc'[h] # "start" /\ Cardinality(clients) = 1000) =>
      (clients' = clients /\ chanBuf' = chanBuf /\ hch'[h] = 0 /\ hresp'[h] = 503)

C4_SubscriberCap == [](C4_CapInvariant) /\ [][C4_FullStep]_vars

\* a request was refused with 503 at the cap, after another handler had
\* subscribed and a third had unsubscribed again
C4_Witness ==
  \E h1, h2, h3 \in Handlers :
    /\ hresp[h1] = 503
    /\ hresp[h2] = 200 /\ hpc[h2] = "stream"
    /\ hresp[h3] = 200 /\ hpc[h3] = "done"
    /\ Cardinality(clients) = 1000

(***************************************************************************)
(* Properties of the snapshot store and the federation orchestrator        *)
(***************************************************************************)
\* a snapshot that is fully built: list and map hold the same nodes, every
\* node carries its community tags, and the statistics count them
C5_Complete(snap) ==
  /\ SeqToSet(snap.NodeList) = {ListEntry(id) : id \in DOMAIN snap.Nodes}
  /\ Len(snap.NodeList) = Cardinality(DOMAIN snap.Nodes)
  /\ snap.Stats.TotalNodes = Cardinality(DOMAIN snap.Nodes)
  /\ \A id \in DOMAIN snap.Nodes :
       /\ snap.Nodes[id].NodeID = id
       /\ Len(snap.Nodes[id].Communities) > 0
       /\ snap.Nodes[id].Community = snap.Nodes[id].Communities[1]
  /\ DOMAIN snap.Stats.Communities =
       UNION {SeqToSet(snap.Nodes[id].Communities) : id \in DOMAIN snap.Nodes}
  /\ \A c \in DOMAIN snap.Stats.Communities :
       snap.Stats.Communities[c] =
         Cardinality({id \in DOMAIN snap.Nodes :
                        c \in SeqToSet(snap.Nodes[id].Communities)})

\* what GetSnapshot returns, to a refresher or to a handler, was published,
\* and everything published is the empty snapshot of store.New or complete
C5_ReadersSeeComplete ==
  /\ snapshot \in published
  /\ \A i \in published : heap[i] = EmptySnapshot \/ C5_Complete(heap[i])
  /\ heap[1] = EmptySnapshot
  /\ \A p \in Procs : fold[p] # 0 => fold[p] \in published
  /\ rsnap # 0 => rsnap \in published
  /\ (rsnap # 0 /\ cload = "none") => view = ViewOf(heap[rsnap])

\* no step writes into a snapshot that has been published
C5_NoWriteAfterPublish == \A i \in published : heap'[i] = heap[i]

\* C5: snapshot publication is atomic and published snapshots are immutable:
\* under any interleaving of the refreshers and a reader, every snapshot
\* GetSnapshot returns is the initial empty one or a fully built one that was
\* passed to SetSnapshot (community tags and Stats.Communities included), and
\* no field of a snapshot is written after its publication.
C5_AtomicImmutablePublication ==
  [](C5_ReadersSeeComplete) /\ [][C5_NoWriteAfterPublish]_vars

\* a reader holds a superseded snapshot while a refresher is about to tag the
\* nodes of a snapshot it has built but not published
C5_Witness ==
  /\ rsnap # 0
  /\ rsnap # snapshot
  /\ snapshot > 2
  /\ \E p \in Procs : fpc[p] = "tag" /\ ~C5_Complete(heap[fptr[p]])

\* the refresher holds the snapshot of its pass
C6_Built(p) == fpc[p] \in {"tag", "publish", "save", "diff", "broadcast"}

\* the id under which the merge keeps a node of a source
C6_MergedId(src, n) ==
  IF n.IsGateway THEN n.NodeID \o "_" \o src.CommunityKey ELSE n.NodeID

\* the endpoint under which the merge keeps a link endpoint of a source
C6_MergedEnd(src, data, id) ==
  IF \E i \in 1..Len(data.Nodes) : data.Nodes[i].IsGateway /\ data.Nodes[i].NodeID = id
    THEN id \o "_" \o src.CommunityKey ELSE id

\* the records of the pass that are kept under id: <<position in the merge
\* order, position in the document>>
C6_Records(p, id) ==
  {ki \in (1..Len(fgot[p])) \X (1..4) :
     /\ ki[2] <= Len(fgot[p][ki[1]].data.Nodes)
     /\ C6_MergedId(fgot[p][ki[1]].src, fgot[p][ki[1]].data.Nodes[ki[2]]) = id}

C6_FirstRecord(p, id) ==
  LET ki == CHOOSE ki \in C6_Records(p, id) :
              \A o \in C6_Records(p, id) :
                ki[1] < o[1] \/ (ki[1] = o[1] /\ ki[2] <= o[2])
  IN fgot[p][ki[1]].data.Nodes[ki[2]]

\* C6: in a refresh-all-sources pass, whichever fetches fail, every node of
\* every source that was fetched is in the snapshot of the pass (the first
\* record of an id wins) and every link of those sources is in it once; the
\* snapshot the pass publishes is that snapshot.
C6_FailuresRemoveNothing ==
  \A p \in Procs : C6_Built(p) =>
    LET snap == heap[fptr[p]] IN
      /\ fpc[p] \in {"save", "diff", "broadcast"} => fptr[p] \in published
      /\ \A k \in 1..Len(fgot[p]) :
           LET src == fgot[p][k].src
               data == fgot[p][k].data IN
             /\ \A i \in 1..Len(data.Nodes) :
                  LET id == C6_MergedId(src, data.Nodes[i])
                      first == C6_FirstRecord(p, id) IN
                    /\ id \in DOMAIN snap.Nodes
                    /\ snap.Nodes[id].Hostname = first.Hostname
                    /\ snap.Nodes[id].IsOnline = first.IsOnline
                    /\ snap.Nodes[id].Clients = first.Clients
             /\ \A j \in 1..Len(data.Links) :
                  Cardinality({m \in 1..Len(snap.Links) :
                     /\ snap.Links[m].Source = C6_MergedEnd(src, data, data.Links[j].Source)
                     /\ snap.Links[m].Target = C6_MergedEnd(src, data, data.Links[j].Target)})
                  = 1

\* a pass in which one of two fetches failed has published its snapshot
C6_Witness ==
  \E p \in Procs :
    /\ fpc[p] = "save"
    /\ snapshot = fptr[p]
    /\ Len(fsrcs[p]) = 2
    /\ Len(fgot[p]) = 1
    /\ facc[p].failCount = 1
    /\ Cardinality(DOMAIN heap[snapshot].Nodes) >= 2

\* the pass merged exactly the two documents of scenario S2
C7_ScenarioS2(p) ==
  {<<fgot[p][k].src.CommunityKey, fgot[p][k].data>> : k \in 1..Len(fgot[p])}
    = {<<"x", DocX1>>, <<"y", DocY1>>}

\* C7: after the merge every gateway a source with key k reports has the id
\* <original id>_k, and the link endpoints and gateway back-references of
\* that source's data that named the original id name the suffixed id; two
\* communities x and y that report a gateway with the same id and one link
\* to a client each give the gateways <id>_x and <id>_y, links at the
\* matching suffixed ids, and Stats.Communities = {x:2, y:2}.
C7_GatewaySuffix ==
  \A p \in Procs : C6_Built(p) =>
    LET snap == heap[fptr[p]] IN
      /\ \A k \in 1..Len(fgot[p]) :
           LET src == fgot[p][k].src
               data == fgot[p][k].data
               gws == {data.Nodes[i].NodeID :
                         i \in {j \in 1..Len(data.Nodes) : data.Nodes[j].IsGateway}}
               end(id) == IF id \in gws THEN id \o "_" \o src.CommunityKey ELSE id IN
             /\ \A g \in gws :
                  /\ (g \o "_" \o src.CommunityKey) \in DOMAIN snap.Nodes
                  /\ snap.Nodes[g \o "_" \o src.CommunityKey].IsGateway
                  /\ g \notin DOMAIN snap.Nodes
             /\ \A j \in 1..Len(data.Links) :
                  /\ [Source |-> end(data.Links[j].Source),
                      Target |-> end(data.Links[j].Target)] \in SeqToSet(snap.Links)
                  /\ \A m \in 1..Len(snap.Links) :
                       snap.Links[m].Source \notin gws /\ snap.Links[m].Target \notin gws
             /\ \A i \in 1..Len(data.Nodes) :
                  LET id == end(data.Nodes[i].NodeID) IN
                    snap.Nodes[id].Domain = src.CommunityKey
                      => snap.Nodes[id].Gateway = end(data.Nodes[i].Gateway)
      /\ C7_ScenarioS2(p) =>
           /\ DOMAIN snap.Nodes
                = {"11:22:33:44:55:66_x", "11:22:33:44:55:66_y", "c-x", "c-y"}
           /\ snap.Nodes["11:22:33:44:55:66_x"].Hostname = "GW-X"
           /\ snap.Nodes["11:22:33:44:55:66_y"].Hostname = "GW-Y"
           /\ Len(snap.Links) = 2
           /\ SeqToSet(snap.Links)
                = {[Source |-> "11:22:33:44:55:66_x", Target |-> "c-x"],
                   [Source |-> "11:22:33:44:55:66_y", Target |-> "c-y"]}
           /\ snap.Nodes["c-x"].Gateway = "11:22:33:44:55:66_x"
           /\ snap.Nodes["c-y"].Gateway = "11:22:33:44:55:66_y"
           /\ fpc[p] # "tag" =>
                /\ DOMAIN snap.Stats.Communities = {"x", "y"}
                /\ snap.Stats.Communities["x"] = 2
                /\ snap.Stats.Communities["y"] = 2

\* the pass over scenario S2 has published its snapshot
C7_Witness ==
  \E p \in Procs :
    /\ fpc[p] = "save"
    /\ snapshot = fptr[p]
    /\ C7_ScenarioS2(p)

\* the browser has applied everything it was sent and nothing is in flight
C8_Quiet ==
  /\ fpc["loop"] = "idle"
  /\ bpc["loop"] = "idle"
  /\ chanBuf[1] = <<>>
  /\ capplied = Len(received[Browser])
  /\ cload = "none"

\* a broadcast skipped the browser's channel and a later one was delivered
C8_SkippedThenServed ==
  \E s \in skipped : \E d \in delivered :
    s[2] = 1 /\ d[2] = 1 /\ d[1] > s[1]

\* C8: a subscriber that was skipped on a broadcast because its buffer was
\* full has caught up once it has received and applied every later update
\* (reload on full/new/gone, patch on changed): its view of the nodes equals
\* the published snapshot.
C8_SkippedSubscriberCatchesUp ==
  (C8_Quiet /\ C8_SkippedThenServed) => view = ViewOf(heap[snapshot])

\* the step in which DiscoverAndRefresh returns the directory error
C9_FailureStep(p) == fpc[p] = "discover" /\ fpc'[p] = Rest(p)

\* that step leaves the federation state and the hub as they were
C9_Frame ==
  \A p \in Procs : C9_FailureStep(p) =>
    /\ UNCHANGED <<fsCommunities, fsSources, fsGrafanaCache, fsNodeCommMap>>
    /\ UNCHANGED <<snapshot, heap, published, disk, grafanaFile>>
    /\ UNCHANGED <<nbroadcast, bpc, bmsg, bcount, chanBuf>>

\* a refresher calls Broadcast only in an attempt that published a snapshot
C9_BroadcastOnlyAfterPublish ==
  \A p \in Procs : (bpc[p] = "idle" /\ bpc'[p] # "idle") =>
    /\ fpc[p] = "diff"
    /\ fptr[p] \in published

\* C9: if the directory fetch or its parsing fails during discover-and-refresh
\* while cached state is being served, the communities, the sources, the
\* metadata cache, the node -> community map and the published snapshot are
\* left unchanged, and no update is broadcast for that attempt.
C9_DirectoryFailureKeepsCache ==
  [][C9_Frame /\ C9_BroadcastOnlyAfterPublish]_vars

\* the background discovery after a restore failed at the directory: the
\* restored state is still the state served and nothing was broadcast
C9_Witness ==
  /\ startup = "cached"
  /\ fpc["bg"] = "done"
  /\ bcount["bg"] = 0
  /\ FFDirectoryURL \in requests
  /\ snapshot = 2
  /\ fsSources = CacheZ.state.Sources
  /\ fsCommunities = CacheZ.state.Communities
  /\ Cardinality(DOMAIN heap[snapshot].Nodes) = 2

\* C10: every outbound request the server issues (probes, source fetches,
\* sources from dataPath entries, config.json and datasource fetches) is
\* preceded by an accepting IsSafeURL check of exactly that URL.  The fetch
\* of the directory, whose URL is a constant of the program, is left aside.
C10_EveryRequestGated ==
  \A u \in requests \ {FFDirectoryURL} : u \in gateAccepted

(***************************************************************************)
(* Properties of the URL gate, the metrics handler, the diff and the       *)
(* snapshot builder                                                        *)
(***************************************************************************)
\* the well-known cloud-metadata endpoints
C11_Metadata == {"169.254.169.254", "metadata.google.internal", "100.100.100.200"}

\* the addresses of the model that are loopback, private (RFC 1918, ULA),
\* link-local or unspecified
C11_Internal ==
  {"127.0.0.1", "::1", "10.0.0.1", "10.0.0.5", "172.16.0.1", "192.168.1.1", "fd00::1",
   "169.254.169.254", "fe80::1", "224.0.0.1", "0.0.0.0"}

\* the addresses of the model that are none of these
C11_Public ==
  {"100.100.100.200", "172.32.0.1", "203.0.113.10", "203.0.113.11", "203.0.113.20",
   "203.0.113.30", "203.0.113.40", "2001:db8::1"}

\* the addresses a host is or resolves to (none when DNS resolution fails)
C11_Addresses(host) ==
  IF host \in C11_Internal \cup C11_Public THEN {host} ELSE LookupHost(host)

C11_Accepts(u) ==
  /\ u.scheme \in {"http", "https"}
  /\ u.host # ""
  /\ u.host \notin C11_Metadata
  /\ C11_Addresses(u.host) \cap C11_Internal = {}

\* the four URLs the specification names
C11_Named(u) ==
  \/ u.scheme = "http" /\ u.host \in {"169.254.169.254", "127.0.0.1", "10.0.0.1"}
  \/ u.scheme = "ftp" /\ u.host = "example"

\* C11: IsSafeURL accepts a URL if and only if its scheme is http or https,
\* its host is non-empty, the host is no blocked metadata endpoint and no
\* address the host is or resolves to is loopback, private, link-local or
\* unspecified (a host whose resolution fails is accepted); the four URLs
\* the specification names are rejected.
C11_GateAcceptsIff ==
  gpc = "done" =>
    /\ gsafe = C11_Accepts(gurl)
    /\ C11_Named(gurl) => gsafe = FALSE

\* the gate has answered for each kind of URL: rejected for its scheme, for
\* a metadata endpoint, for a name resolving to a private address among
\* others; accepted for a name that does not resolve
C11_WitnessFtp == gpc = "done" /\ gsafe = FALSE /\ gurl.scheme = "ftp" /\ gurl.host = "example"

C11_Witness ==
  /\ gpc = "done"
  /\ gsafe = FALSE
  /\ gurl = URL("http", "rebind.example", <<"latest", "meta-data">>)

\* the characters a node id may consist of
C12_Allowed ==
  {"0", "1", "2", "3", "4", "5", "6", "7", "8", "9", "a", "b", "c", "d", "e", "f",
   "A", "B", "C", "D", "E", "F", ":", "-"}

\* the id of the request contains "/" or a character that is not allowed
C12_BadID ==
  \/ Len(mreq.path) > 1
  \/ \E i \in 1..Len(Chars(mreq.path[1])) : Chars(mreq.path[1])[i] \notin C12_Allowed

\* in federation mode the id of a gateway carries the key of its community
C12_GatewayID ==
  /\ cfg.Federation
  /\ \E i \in 1..Len(MapGet(fsNodeCommMap, mreq.path[1], <<>>)) :
       HasGwSuffix(mreq.path[1], MapGet(fsNodeCommMap, mreq.path[1], <<>>)[i])

\* C12: a metrics request whose node id contains "/", ";" or any character
\* outside [0-9a-fA-F:-] is answered 400 and causes no outbound query, in
\* federation and in single-community mode, whatever the metadata cache
\* holds for the id.
C12_BadIDIsRejected ==
  (mpc = "done" /\ C12_BadID /\ ~C12_GatewayID) =>
     (mresp.status = 400 /\ mqueries = <<>>)

\* a time-series base is known for the node of the request: in federation
\* mode a metadata-cache entry with a base URL and a datasource id under one
\* of the node's community keys, in single-community mode the configured
\* grafanaURL
C13_BaseKnown ==
  IF cfg.Federation
    THEN \E i \in 1..Len(MapGet(fsNodeCommMap, mreq.path[1], <<>>)) :
           LET ck == MapGet(fsNodeCommMap, mreq.path[1], <<>>)[i]
           IN /\ ck \in DOMAIN fsGrafanaCache
              /\ fsGrafanaCache[ck].BaseURL # NoURL
              /\ fsGrafanaCache[ck].DatasourceID # 0
    ELSE cfg.GrafanaURL # NoURL

\* C13: a metrics request for a node for which no time-series base is known
\* (federation mode: no metadata-cache entry with base URL and datasource id
\* under any of the node's community keys; single-community mode: no
\* configured grafanaURL) is answered 404.
C13_NoBaseIsNotFound ==
  (mpc = "done" /\ mreq.path[1] # "" /\ ~C13_BaseKnown) => mresp.status = 404

\* the request passes resolution and validation
C14_Passed ==
  /\ mreq.path[1] # ""
  /\ C13_BaseKnown
  /\ ResolveTarget(cfg, fsNodeCommMap, fsGrafanaCache, mreq.path[1]).err = 0
  /\ \A i \in 1..Len(Chars(ResolveTarget(cfg, fsNodeCommMap, fsGrafanaCache,
                                         mreq.path[1]).queryNodeID)) :
       Chars(ResolveTarget(cfg, fsNodeCommMap, fsGrafanaCache,
                           mreq.path[1]).queryNodeID)[i] \in C12_Allowed

\* the metrics the request asks for, in the order of the queries
C14_Asked ==
  IF mreq.metric = "traffic" THEN <<"traffic_forward", "traffic_rx", "traffic_tx">>
  ELSE IF mreq.metric = "" THEN <<"clients">>
  ELSE IF mreq.metric \in QueryNames THEN <<mreq.metric>> ELSE <<>>

\* the query for the metric fails: the gate rejects its URL, or the server
\* does not answer, answers with another status than 200 or with a body
\* that cannot be parsed
C14_Fails(mn) ==
  \/ ResolveTarget(cfg, fsNodeCommMap, fsGrafanaCache, mreq.path[1]).grafanaURL.host
       \in C11_Internal
  \/ mup[mn] \in {"transport", "status", "garbage"}

\* the entry of a metric whose query succeeded
C14_Data(mn) ==
  IF mup[mn] = "empty" THEN [name |-> mn, times |-> <<>>, values |-> <<>>]
  ELSE IF mn = "traffic_rx" THEN [name |-> mn, times |-> <<100, 200>>, values |-> <<7, 9>>]
  ELSE [name |-> mn, times |-> <<100>>, values |-> <<3>>]

C14_IsOK(mn) == ~C14_Fails(mn)

\* C14 as claimed: for a metrics request that passed resolution and
\* validation, a failing upstream query never produces a 5xx response: the
\* response is the 60 s-cacheable result list, in which the failed metric
\* appears as an entry with empty times and values and the other metrics
\* keep their data.
C14_FailedMetricIsEmptyEntry ==
  (mpc = "done" /\ C14_Passed) =>
     /\ mresp.status = 200
     /\ mresp.cacheControl = "public, max-age=60"
     /\ mresp.results =
          [i \in 1..Len(C14_Asked) |->
             IF C14_Fails(C14_Asked[i])
               THEN [name |-> C14_Asked[i], times |-> <<>>, values |-> <<>>]
               ELSE C14_Data(C14_Asked[i])]

\* C14 (amended): for a metrics request that passed resolution and
\* validation, a failing upstream query never produces a 5xx response: the
\* response is the 60 s-cacheable result list, from which the failed metric
\* is left out, while the other metrics keep their data and their order.
C14_FailedMetricIsLeftOut ==
  (mpc = "done" /\ C14_Passed) =>
     /\ mresp.status = 200
     /\ mresp.cacheControl = "public, max-age=60"
     /\ mresp.results =
          [i \in 1..Len(SelectSeq(C14_Asked, C14_IsOK)) |->
             C14_Data(SelectSeq(C14_Asked, C14_IsOK)[i])]

\* traffic was asked for in federation mode, the second of its three
\* queries got no answer, and the response carries the other two
C14_Witness ==
  /\ mpc = "done"
  /\ cfg.Federation
  /\ mreq = [path |-> <<"aa:bb_x">>, metric |-> "traffic", duration |-> "24h"]
  /\ mup["traffic_rx"] = "transport"
  /\ Len(mqueries) = 3
  /\ mresp.status = 200
  /\ Len(mresp.results) = 2

\* C15 as claimed: for every snapshot A, the empty one included,
\* ComputeDiff(A, A) is an update of type "stats" with empty Changed, New and
\* Gone.
C15_SelfDiffIsStats ==
  (dpc = "done" /\ dold = dcur) =>
     (dupd.Type = "stats" /\ dupd.Changed = {} /\ dupd.New = {} /\ dupd.Gone = {})

\* C15 (amended): for every snapshot A with at least one node,
\* ComputeDiff(A, A) is an update of type "stats" with empty Changed, New and
\* Gone; for the empty snapshot the update is of type "full", with the same
\* three lists empty.
C15_SelfDiffIsStatsOrFull ==
  (dpc = "done" /\ dold = dcur) =>
     /\ dupd.Type = IF DOMAIN dold.Nodes = {} THEN "full" ELSE "stats"
     /\ dupd.Changed = {} /\ dupd.New = {} /\ dupd.Gone = {}
     /\ dupd.Stats = dcur.Stats

\* the diff of a snapshot of three nodes with itself was computed
C15_Witness ==
  /\ dpc = "done"
  /\ dold = dcur
  /\ DOMAIN dold.Nodes = {"n1", "n2", "n3"}
  /\ dupd.Type = "stats"

\* the node ids of a snapshot
C16_Ids(snap) == DOMAIN snap.Nodes

\* C16 as claimed: for any two snapshots A and B, empty A included, the ids
\* of A without the ids in Gone and with the ids in New of ComputeDiff(A, B)
\* are exactly the ids of B.
C16_GoneAndNewGiveB ==
  dpc = "done" => (C16_Ids(dold) \ dupd.Gone) \cup dupd.New = C16_Ids(dcur)

\* C16 (amended): for any two snapshots A and B of which A has at least one
\* node, the ids of A without the ids in Gone and with the ids in New of
\* ComputeDiff(A, B) are exactly the ids of B; for empty A the update is of
\* type "full" and lists no id.
C16_GoneAndNewGiveBUnlessFull ==
  dpc = "done" =>
     IF C16_Ids(dold) = {}
       THEN dupd.Type = "full" /\ dupd.New = {} /\ dupd.Gone = {}
       ELSE (C16_Ids(dold) \ dupd.Gone) \cup dupd.New = C16_Ids(dcur)

\* a node left, a node arrived and a node stayed
C16_Witness ==
  /\ dpc = "done"
  /\ C16_Ids(dold) = {"n1", "n2"}
  /\ C16_Ids(dcur) = {"n2", "n3"}
  /\ dupd.Gone = {"n1"}
  /\ dupd.New = {"n3"}

\* the ids in both snapshots whose is_online, clients, load_avg or mem_usage differ
C17_Differ ==
  {id \in (DOMAIN dold.Nodes) \cap (DOMAIN dcur.Nodes) :
     <<dold.Nodes[id].IsOnline, dold.Nodes[id].Clients, dold.Nodes[id].LoadAvg,
       dold.Nodes[id].MemUsage>> #
     <<dcur.Nodes[id].IsOnline, dcur.Nodes[id].Clients, dcur.Nodes[id].LoadAvg,
       dcur.Nodes[id].MemUsage>>}

\* A = {n1 online 5, n2 online 0}, B = {n1 online 6, n2 offline 0, n3 online 2}
C17_Example ==
  /\ DOMAIN dold.Nodes = {"n1", "n2"}
  /\ DOMAIN dcur.Nodes = {"n1", "n2", "n3"}
  /\ dold.Nodes["n1"].IsOnline /\ dold.Nodes["n1"].Clients = 5
  /\ dold.Nodes["n1"].LoadAvg = 0 /\ dold.Nodes["n1"].MemUsage = 0
  /\ dold.Nodes["n2"].IsOnline /\ dold.Nodes["n2"].Clients = 0
  /\ dcur.Nodes["n1"].IsOnline /\ dcur.Nodes["n1"].Clients = 6
  /\ dcur.Nodes["n1"].LoadAvg = 0 /\ dcur.Nodes["n1"].MemUsage = 0
  /\ ~dcur.Nodes["n2"].IsOnline /\ dcur.Nodes["n2"].Clients = 0
  /\ dcur.Nodes["n3"].IsOnline /\ dcur.Nodes["n3"].Clients = 2

\* C17: for non-empty old, ComputeDiff(old, cur) lists in Changed exactly the
\* nodes present in both snapshots whose is_online, clients, load_avg or
\* mem_usage differ, with cur's values, in New exactly the ids in cur and not
\* in old, in Gone exactly the ids in old and not in cur; the type is "diff"
\* iff one of the three lists is non-empty and "stats" otherwise.  For the
\* example of the specification New = [n3], Changed = {n1, n2}, Gone = [].
C17_DiffLists ==
  (dpc = "done" /\ DOMAIN dold.Nodes # {}) =>
     /\ {c.NodeID : c \in dupd.Changed} = C17_Differ
     /\ \A c \in dupd.Changed :
          /\ c.IsOnline = dcur.Nodes[c.NodeID].IsOnline
          /\ c.Clients = dcur.Nodes[c.NodeID].Clients
          /\ c.LoadAvg = dcur.Nodes[c.NodeID].LoadAvg
          /\ c.MemUsage = dcur.Nodes[c.NodeID].MemUsage
     /\ Cardinality(dupd.Changed) = Cardinality(C17_Differ)
     /\ dupd.New = (DOMAIN dcur.Nodes) \ (DOMAIN dold.Nodes)
     /\ dupd.Gone = (DOMAIN dold.Nodes) \ (DOMAIN dcur.Nodes)
     /\ dupd.Type \in {"diff", "stats"}
     /\ dupd.Type = "diff" <=> (dupd.Changed # {} \/ dupd.New # {} \/ dupd.Gone # {})
     /\ C17_Example =>
          /\ dupd.New = {"n3"}
          /\ {c.NodeID : c \in dupd.Changed} = {"n1", "n2"}
          /\ dupd.Gone = {}

\* the diff of the example was computed
C17_Witness == dpc = "done" /\ C17_Example /\ dupd.Type = "diff"

\* a node that differs in its load average alone is listed
C17_WitnessLoad ==
  /\ dpc = "done"
  /\ C17_Differ = {"n1"}
  /\ dold.Nodes["n1"].Clients = dcur.Nodes["n1"].Clients
  /\ dold.Nodes["n1"].LoadAvg # dcur.Nodes["n1"].LoadAvg

\* a link between a and b exists
C18_Linked(a, b) ==
  \E i \in 1..Len(psnap.Links) :
    \/ psnap.Links[i].Source = a /\ psnap.Links[i].Target = b
    \/ psnap.Links[i].Source = b /\ psnap.Links[i].Target = a

\* C18: in every snapshot the builder returns, the neighbour list of each
\* node has no duplicates, and b is in the neighbours of a iff a link
\* between a and b exists and both are nodes of the snapshot: the relation
\* is symmetric, and a link endpoint that is not in the node map is in no
\* neighbour list.
C18_NeighboursMatchLinks ==
  ppc = "done" =>
    \A a \in DOMAIN psnap.Nodes :
      /\ \A i, j \in 1..Len(psnap.Nodes[a].Neighbours) :
           psnap.Nodes[a].Neighbours[i] = psnap.Nodes[a].Neighbours[j] => i = j
      /\ \A b \in SeqToSet(psnap.Nodes[a].Neighbours) :
           b \in DOMAIN psnap.Nodes /\ C18_Linked(a, b)
      /\ \A b \in DOMAIN psnap.Nodes :
           C18_Linked(a, b) => b \in SeqToSet(psnap.Nodes[a].Neighbours)

\* the sum of f over the set S
RECURSIVE C19_Sum(_, _)
C19_Sum(f, S) ==
  IF S = {} THEN 0
  ELSE LET x == CHOOSE x \in S : TRUE IN f[x] + C19_Sum(f, S \ {x})

\* C19: in every built snapshot, for any raw input, Stats.TotalNodes is the
\* number of nodes in the node map and in the node list, OnlineNodes the
\* number of online nodes, TotalClients the sum of the clients of the online
\* nodes and Gateways the number of gateway nodes.
C19_StatsMatchNodes ==
  ppc = "done" =>
    /\ psnap.Stats.TotalNodes = Cardinality(DOMAIN psnap.Nodes)
    /\ psnap.Stats.TotalNodes = Len(psnap.NodeList)
    /\ psnap.Stats.OnlineNodes =
         Cardinality({id \in DOMAIN psnap.Nodes : psnap.Nodes[id].IsOnline})
    /\ psnap.Stats.TotalClients =
         C19_Sum([id \in DOMAIN psnap.Nodes |-> psnap.Nodes[id].Clients],
                 {id \in DOMAIN psnap.Nodes : psnap.Nodes[id].IsOnline})
    /\ psnap.Stats.Gateways =
         Cardinality({id \in DOMAIN psnap.Nodes : psnap.Nodes[id].IsGateway})

(***************************************************************************)
(* Properties of the state file                                            *)
(***************************************************************************)
\* the two snapshots have the same node ids, link endpoints, community tags
\* and tallies
C20_Same(r, s) ==
  /\ DOMAIN r.Nodes = DOMAIN s.Nodes
  /\ [i \in 1..Len(r.Links) |-> <<r.Links[i].Source, r.Links[i].Target>>] =
       [i \in 1..Len(s.Links) |-> <<s.Links[i].Source, s.Links[i].Target>>]
  /\ \A id \in (DOMAIN r.Nodes) \cap (DOMAIN s.Nodes) :
       /\ r.Nodes[id].Community = s.Nodes[id].Community
       /\ r.Nodes[id].Communities = s.Nodes[id].Communities
  /\ r.Stats.TotalNodes = s.Stats.TotalNodes
  /\ r.Stats.OnlineNodes = s.Stats.OnlineNodes
  /\ r.Stats.TotalClients = s.Stats.TotalClients
  /\ r.Stats.Gateways = s.Stats.Gateways
  /\ r.Stats.Communities = s.Stats.Communities

\* SaveState has written the file
C20_Saved == disk' # disk

\* C20: saving the federation state and restoring it on a fresh store gives
\* a published snapshot with the same node ids, the same link endpoints, the
\* same community tags of every node and the same tallies (total, online,
\* clients, gateways, community counts) as the snapshot that was saved.
C20_SaveRestoreRoundTrip ==
  [][C20_Saved => (CacheUsable(disk') /\ C20_Same(RestoredSnapshot(disk'), heap[snapshot]))]_vars

(***************************************************************************)
(* Properties of the configuration and of the refreshers                   *)
(***************************************************************************)
\* no refresher is between fs.Cfg.DomainNames = domainNames and
\* fs.Cfg.DomainNames = origDomains
C21_NoBuild == \A p \in Procs : fpc[p] # "process"

\* C21: whenever no snapshot build is in progress, the configuration's
\* domain-names map is the map loaded from the configuration file, without
\* the community key -> community name entries
C21_DomainNamesRestored == C21_NoBuild => cfgDomainNames = ConfigDomainNames

\* the refresher is inside RefreshAllSources (SaveState is its last call)
C22_InPass(p) == fpc[p] \in {"refresh", "domains", "process", "tag", "publish", "save"}

\* C22: at no time are two executions of RefreshAllSources / SaveState in
\* progress, on any startup path
C22_SingleWriter == ~(C22_InPass("bg") /\ C22_InPass("loop"))

(***************************************************************************)
(* Properties of the discovery                                             *)
(***************************************************************************)
\* the probe of data URL u, listed by community c, succeeded
C23_Probed(c, u) ==
  /\ \E i \in 1..Len(c.MeshviewerURLs) : c.MeshviewerURLs[i] = u
  /\ u \in rworld.alive
  /\ IsSafeURL(u)

\* c delivered before d
C23_Before(c, d) ==
  \E i, j \in 1..Len(rarrival) : i <= j /\ rarrival[i] = c /\ rarrival[j] = d

\* a resolved source carries c's key as its CommunityKey: c was the first to
\* deliver a successful probe of some URL
C23_Owns(c) ==
  \E u \in rworld.alive :
    /\ C23_Probed(c, u)
    /\ \A i \in 1..Len(rarrival) : C23_Probed(rarrival[i], u) => C23_Before(c, rarrival[i])

\* the dataPath entry u of c's map was added, or tagged onto the source of u
C23_DataPath(c, u) ==
  /\ ~C23_Owns(c)
  /\ c.Key \in DOMAIN rout.grafanaCache
  /\ \E i \in 1..Len(rout.grafanaCache[c.Key].DataPaths) :
       rout.grafanaCache[c.Key].DataPaths[i] = u
  /\ u.scheme \in {"http", "https"}

\* the primary and alias keys of every community that collapsed onto u
C23_Keys(u) ==
  UNION {SeqToSet(rworld.communities[i].AllKeys) \cup {rworld.communities[i].Key} :
           i \in {j \in 1..Len(rworld.communities) :
                    \/ C23_Probed(rworld.communities[j], u)
                    \/ C23_DataPath(rworld.communities[j], u)}}

\* C23: after source resolution and the addition of the dataPath sources, no
\* two sources have the same data URL, and the keys of each source are the
\* primary and alias keys of the communities whose successful probe or
\* dataPath entry collapsed onto its URL, in every order of delivery
C23_OneSourcePerURLWithAllKeys ==
  rpc = "done" =>
    /\ \A i, j \in 1..Len(rout.sources) :
         rout.sources[i].DataURL = rout.sources[j].DataURL => i = j
    /\ \A i \in 1..Len(rout.sources) :
         SeqToSet(rout.sources[i].CommunityKeys) = C23_Keys(rout.sources[i].DataURL)

\* the directory entries that name a URL, as DiscoverCommunities reads them
C24_Entries ==
  {c \in {DirectoryCommunity(k, kdir[k]) : k \in DOMAIN kdir} :
     Len(c.MeshviewerURLs) > 0 \/ Len(c.NodelistURLs) > 0}

\* the entries collapsed under one name
C24_Named(name) == {c \in C24_Entries : c.Name = name}

C24_Max(S) == CHOOSE n \in S : \A m \in S : m <= n

C24_NoDuplicates(list) == \A i, j \in 1..Len(list) : list[i] = list[j] => i = j

\* the community is the collapse of the entries es
C24_Collapses(c, es) ==
  /\ \E e \in es : e.Key = c.Key /\ e.Nodes = C24_Max({d.Nodes : d \in es})
  /\ c.Nodes = C24_Max({d.Nodes : d \in es})
  /\ SeqToSet(c.AllKeys) = {e.Key : e \in es}
  /\ C24_NoDuplicates(c.AllKeys)
  /\ SeqToSet(c.MeshviewerURLs) = UNION {SeqToSet(e.MeshviewerURLs) : e \in es}
  /\ SeqToSet(c.NodelistURLs) = UNION {SeqToSet(e.NodelistURLs) : e \in es}

C24_OnePerName ==
  /\ \A i, j \in 1..Len(kout) : kout[i].Name = kout[j].Name => i = j
  /\ {kout[i].Name : i \in 1..Len(kout)} = {e.Name : e \in C24_Entries}

C24_SortedByNodes == \A i, j \in 1..Len(kout) : i < j => kout[i].Nodes >= kout[j].Nodes

\* C24: after the collapse there is one community per name; its key is the
\* key of the entry with the most nodes and its node count that maximum,
\* AllKeys holds the key of every collapsed entry once, the URL lists are
\* the union of the entries' lists without duplicates, and the list is
\* sorted by node count, descending, whatever the order of iteration
C24_CollapseByName ==
  kpc = "done" =>
    /\ C24_OnePerName
    /\ \A i \in 1..Len(kout) :
         /\ C24_Collapses(kout[i], C24_Named(kout[i].Name))
         /\ C24_NoDuplicates(kout[i].MeshviewerURLs)
         /\ C24_NoDuplicates(kout[i].NodelistURLs)
    /\ C24_SortedByNodes

(***************************************************************************)
(* Properties of the Grafana discovery                                     *)
(***************************************************************************)
\* the requests a run makes for the entry of key k: config.json and the
\* page of the bases of k's source, and /api/datasources of its Grafana
C25_ProbesOf(k, entry) ==
  UNION {{URLJoin(b, "config.json"), URLJoin(b, "")} :
           b \in UNION {SeqToSet(DeriveMeshviewerBases(src.DataURL)) \cup SeqToSet(src.MapURLs) :
                          src \in {s \in SeqToSet(GrafanaSources) : s.CommunityKey = k}}}
  \cup {DatasourceURL(entry)}

C25_Reused(k) ==
  /\ k \in DOMAIN grout.cache
  /\ grout.cache[k] = grprev[k]
  /\ C25_ProbesOf(k, grprev[k]) \cap grout.req = {}

C25_ProbedAgain(k) == DatasourceURL(grprev[k]) \in grout.req

\* C25: after a run of the discovery, every entry the cache file held
\* with a datasource id is in the returned cache as it was in the file, and
\* no request was made for it; for every entry the file held with a base
\* URL and without a datasource id, /api/datasources was requested.
C25_ReuseWithIdProbeWithout ==
  gruns > 0 =>
    \A k \in DOMAIN grprev :
      /\ grprev[k].DatasourceID # 0 => C25_Reused(k)
      /\ (grprev[k].BaseURL # NoURL /\ grprev[k].DatasourceID = 0) => C25_ProbedAgain(k)

(***************************************************************************)
(* Properties of the node ids                                              *)
(***************************************************************************)
\* the id under which the snapshot holds the i-th node of source s
C26_SnapshotID(s, i) ==
  IF odocs[s].Nodes[i].IsGateway
    THEN GwSuffixed(odocs[s].Nodes[i].NodeID, osrcs[s].CommunityKey)
    ELSE odocs[s].Nodes[i].NodeID

C26_Recovered(s, i) == oids[C26_SnapshotID(s, i)] = odocs[s].Nodes[i].NodeID

\* C26: for every node a source reported, gateway or not, GrafanaInfoForNode
\* called with the node's id in the snapshot returns the id the source
\* reported.
C26_OriginalIDRecovered ==
  opc = "done" =>
    \A s \in 1..Len(odocs) : \A i \in 1..Len(odocs[s].Nodes) : C26_Recovered(s, i)

(***************************************************************************)
(* Properties of the startup from the cache                                *)
(***************************************************************************)
\* the snapshot RestoreState builds of the cache the store started from
C27_Restored ==
  TagSnapshot(ProcessData(MeshviewerData(CacheZ.state.Nodes, CacheZ.state.Links)),
              CacheZ.state.NodeCommMap)

\* as long as no request was made, the published snapshot is the restored one
C27_RestoredBeforeRequests ==
  requests = {} => snapshot \in published /\ heap[snapshot] = C27_Restored

\* what the background goroutine broadcasts is the diff between the
\* restored snapshot and the snapshot its own refresh built
C27_BackgroundDiff ==
  bpc["bg"] # "idle" =>
    bmsg["bg"].upd = ComputeDiff(C27_Restored, heap[fptr["bg"]])

\* C27: started from a valid cache, the store serves the snapshot rebuilt
\* from the cached nodes and links and tagged from the cached multi-map
\* before any request is made, and the background refresh, when it
\* succeeds, broadcasts the diff between that snapshot and the one it built.
C27_RestoreThenBackgroundDiff ==
  C27_RestoredBeforeRequests /\ C27_BackgroundDiff

(***************************************************************************)
(* Properties of the ingestion of a file                                   *)
(***************************************************************************)
\* the id under which the snapshot holds the i-th record of the file
C28_SnapshotID(i) ==
  IF imode = "federation" /\ itype # "nodelist" /\ ifile[i].Gateway
    THEN GwSuffixed(ifile[i].ID, "x") ELSE ifile[i].ID

C28_WithID == {i \in 1..Len(ifile) : ifile[i].ID # ""}

\* no node without an id, and none counted
C28_NoIDSkipped ==
  /\ "" \notin DOMAIN isnap.Nodes
  /\ isnap.Stats.TotalNodes = Cardinality(C28_WithID)

\* every record with an id is a node
C28_OthersIngested ==
  \A i \in C28_WithID : C28_SnapshotID(i) \in DOMAIN isnap.Nodes

\* C28: once the file is read and the snapshot published, no node of the
\* snapshot has an empty id, the stats count exactly the records that have
\* an id, and every record with an id is a node of the snapshot.
C28_RecordsWithoutIDSkipped ==
  ipc = "done" => C28_NoIDSkipped /\ C28_OthersIngested

(***************************************************************************)
(* Properties of the shutdown                                              *)
(***************************************************************************)
\* the refresh loop has returned, with its tickers stopped
C29_LoopStopped == loopReturned

\* no refresh is under way
C29_NoFetchInFlight == fpc["loop"] = "idle"

\* no channel is registered and every channel that was made is closed
C29_ChannelsClosed ==
  clients = {} /\ \A ch \in DOMAIN chanClosed : chanClosed[ch]

\* C29: once the signal has come, eventually the refresh loop has returned
\* with its tickers stopped, no fetch is in flight, and every subscriber
\* channel is unsubscribed and closed.
C29_ShutdownReachesAll ==
  (mainpc # "serving") ~> (C29_LoopStopped /\ C29_NoFetchInFlight /\ C29_ChannelsClosed)

(***************************************************************************)
(* Properties of the broadcasts of the refreshers                          *)
(***************************************************************************)
\* refresher p calls hub.Broadcast in this step
C30_Broadcasts(p) == bcount'[p] # bcount[p]

\* the pass of p has succeeded and published its snapshot, and the update is
\* the diff between the snapshot that publication replaced and p's snapshot
C30_DiffOfOwnPass(p) ==
  /\ fpc[p] = "diff"
  /\ bcount'[p] = bcount[p] + 1
  /\ fptr[p] \in published
  /\ bmsg'[p].upd = ComputeDiff(heap[fprev[p]], heap[fptr[p]])

\* C30: a refresher broadcasts only at the end of a refresh that succeeded,
\* once, after its snapshot was published, and the update is the diff
\* between the snapshot that was published immediately before and the
\* snapshot of this refresh.
C30_PublishThenBroadcastDiff ==
  [][\A p \in Procs : C30_Broadcasts(p) => C30_DiffOfOwnPass(p)]_vars

(***************************************************************************)
(* Properties of the three locks                                           *)
(***************************************************************************)
\* a goroutine that is about to acquire a lock holds none
C31_NoNestedAcquire ==
  \A g \in LockGoroutines : LockAt(g).op \in {"Lock", "RLock"} => LockHeld(g) = {}

\* a goroutine that is about to send on a channel and would wait for the
\* receiver holds no lock
C31_NoLockAcrossSend ==
  \A g \in LockGoroutines : LockAt(g).op = "send" => LockHeld(g) = {}

\* as long as some goroutine has not finished, some goroutine can go on
C31_NoDeadlock ==
  (\E g \in LockGoroutines : ~LockDone(g)) => ENABLED NextLocks

\* C31: no goroutine acquires one of the three locks while it holds
\* another, no lock is held across a blocking channel send, and the
\* refreshers, RestoreState and SaveState, the HTTP handlers and the hub
\* never reach a state in which none of them can go on.
C31_LeafLocks == C31_NoNestedAcquire /\ C31_NoLockAcrossSend /\ C31_NoDeadlock

\* a writer waits for fedMu behind a reader while a broadcast holds the read
\* lock of the hub over its sends and a handler waits to subscribe
C31_Witness ==
  \E w, r, b, h \in LockGoroutines :
    /\ w \in lkPending["fedMu"]
    /\ lkReaders["fedMu"][r] > 0
    /\ LockAt(b).op = "trysend"
    /\ LockHeld(b) = {"hubMu"}
    /\ h \in lkPending["hubMu"]

(***************************************************************************)
(* Properties of the fan-outs                                              *)
(***************************************************************************)
\* the goroutines that hold a slot of sem: their probes or fetches are in flight
C32_InFlight == {w \in FanWorkers : fanW[w] = "run"}

C32_Finished ==
  /\ fanCaller = "done"
  /\ fanCloser = "done"
  /\ \A w \in FanWorkers : fanW[w] = "done"

\* no more goroutines in flight than sem has slots
C32_Capped == Cardinality(C32_InFlight) <= fanCfg.semCap

\* ch is closed at most once, not before the last goroutine has called
\* wg.Done, and nothing is sent on it afterwards
C32_ClosedOnceAfterLast ==
  /\ fanClosed <= 1
  /\ fanClosed = 1 => \A w \in FanWorkers : fanW[w] = "done"
  /\ ~fanPanic

\* the caller, the goroutines and the closer never all wait
C32_NoDeadlock == ~C32_Finished => ENABLED NextFanout

\* the caller has left its range loop with every result of every goroutine
C32_AllCollected ==
  /\ C32_Finished
  /\ fanClosed = 1
  /\ fanCollected = fanCfg.results

\* C32: in a fan-out no more probes or fetches are in flight than the
\* semaphore has slots; for every number of communities or sources and of
\* results per community the workers, the semaphore and the result channel
\* never deadlock, the channel is closed exactly once after the last
\* worker has finished, and the fan-out ends with every result collected.
C32_BoundedFanoutTerminates ==
  /\ [](C32_Capped /\ C32_ClosedOnceAfterLast /\ C32_NoDeadlock)
  /\ <>[]C32_AllCollected

\* every slot of sem is taken, a goroutine waits for a slot, and a goroutine
\* that holds one waits for a place in the full channel
C32_Witness ==
  /\ fanSem = fanCfg.semCap
  /\ \E w \in FanWorkers : fanW[w] = "sem"
  /\ \E w \in FanWorkers : fanW[w] = "run" /\ fanLeft[w] > 0
  /\ FanChLen(fanCfg.n) = fanCfg.chCap

(***************************************************************************)
(* Properties of the probes of ResolveBestSources                          *)
(***************************************************************************)
\* the probe of u, if made in this pass, is answered with data
C33_Succeeds(u) == u \in pworld.alive /\ u \notin pworld.fatal

\* the goroutine of community k has made its probes and returned
C33_Returned(k) == ppos[k] > Len(pres[k].probes)

\* the URLs the goroutine of community k requests in this pass
C33_Probed(k) == SeqToSet(pres[k].probes)

C33_Rich(k) == SeqToSet(ProbeCommunity(k).MeshviewerURLs)

C33_Lists(k) == SeqToSet(ProbeCommunity(k).NodelistURLs)

C33_Derived(k) == DerivedURLs(ProbeCommunity(k)) \ (C33_Rich(k) \cup C33_Lists(k))

\* 1: a richformat URL, 2: a nodelist URL, 3: a derived candidate
C33_Stage(k, u) == IF u \in C33_Rich(k) THEN 1 ELSE IF u \in C33_Lists(k) THEN 2 ELSE 3

\* the stages come one after the other
C33_FixedOrder(k) ==
  \A i, j \in DOMAIN pres[k].probes :
    i < j => C33_Stage(k, pres[k].probes[i]) <= C33_Stage(k, pres[k].probes[j])

\* a nodelist URL is probed only if no richformat probe succeeded
C33_ListsAfterRichFailed(k) ==
  C33_Probed(k) \cap C33_Lists(k) # {}
    => ~\E u \in C33_Probed(k) \cap C33_Rich(k) : C33_Succeeds(u)

\* no nodelist URL is probed after a nodelist probe succeeded
C33_ListsStopAtFirst(k) ==
  LET lists == ProbeCommunity(k).NodelistURLs
  IN \A i, j \in DOMAIN lists :
       (i < j /\ lists[j] \in C33_Probed(k))
         => ~(lists[i] \in C33_Probed(k) /\ C33_Succeeds(lists[i]))

\* a derived candidate is probed only if no richformat and no nodelist
\* probe succeeded
C33_DerivedAfterAllFailed(k) ==
  C33_Probed(k) \cap C33_Derived(k) # {}
    => ~\E u \in C33_Probed(k) \cap (C33_Rich(k) \cup C33_Lists(k)) : C33_Succeeds(u)

\* community a, whose one candidate is the nodelist NA: if NA answers, a
\* resolves to NA as a nodelist and to nothing else
C33_OneNodelistOneSource ==
  C33_Succeeds(NA)
    => /\ Len(pres["a"].sources) = 1
       /\ pres["a"].sources[1].DataURL = NA
       /\ pres["a"].sources[1].DataType = "nodelist"

\* C33: the resolver probes a community in a fixed order with early
\* stopping: nodelist URLs only if no richformat probe succeeded, and none
\* after the first that succeeded; the derived paths meshviewer.json and
\* nodes.json only if neither a richformat nor a nodelist probe succeeded.
\* A community whose only candidate is one reachable nodelist URL resolves
\* to exactly that URL with the format tag nodelist.
C33_StagedProbing ==
  /\ \A k \in ProbeKeys :
       C33_Returned(k)
         => /\ C33_FixedOrder(k)
            /\ C33_ListsAfterRichFailed(k)
            /\ C33_ListsStopAtFirst(k)
            /\ C33_DerivedAfterAllFailed(k)
  /\ C33_Returned("a") => C33_OneNodelistOneSource

\* no request went to a host after a request to it had ended in a
\* host-fatal error in this pass, whichever goroutine made the two
C34_NoProbeAfterFatal == plate = {}

\* the same within the requests of one community
C34_WithinCommunity ==
  \A k \in ProbeKeys : \A i, j \in 1..Len(pres[k].probes) :
    (i < j /\ pres[k].probes[i] \in pworld.fatal)
      => pres[k].probes[j].host # pres[k].probes[i].host

\* a host that was dead in the pass before is asked again in this pass
C34_ProbedAgainNextPass ==
  (ppass > 1 /\ \A k \in ProbeKeys : C33_Returned(k))
    => \A h \in pprevdead : \E k \in ProbeKeys : \E i \in 1..Len(pres[k].probes) :
         pres[k].probes[i].host = h

\* C34: within one resolve pass, once a probe to a host has failed with a
\* host-fatal error, no further probe request is sent to that host for the
\* remainder of the pass, whichever community the remaining URLs belong to;
\* in the next resolve pass the host is probed again.
C34_DeadHostSkippedForPass ==
  /\ C34_NoProbeAfterFatal
  /\ C34_ProbedAgainNextPass

(***************************************************************************)
(* Properties of the format tags                                           *)
(***************************************************************************)
\* the source was fetched and decoded, and every record of its file that
\* has an id is a node of the published snapshot
C35_Ingested ==
  /\ ~DecodeSource(itype, ifile).err
  /\ \A i \in C28_WithID : C28_SnapshotID(i) \in DOMAIN isnap.Nodes

\* the same for the tags meshviewer and nodelist only
C35_AdaptedTags ==
  (ipc = "done" /\ imode = "federation" /\ itype \in {"meshviewer", "nodelist"})
    => C35_Ingested

\* C35: every format tag the resolver can assign (meshviewer, nodelist,
\* nodes) has an adapter in the fetch step of the refresh: a resolved source
\* that serves a valid document is not counted as failed because of its tag,
\* and its nodes reach the published snapshot.
C35_EveryTagHasAdapter ==
  (ipc = "done" /\ imode = "federation") => C35_Ingested

(***************************************************************************)
(* Properties of the merge of one refresh                                  *)
(***************************************************************************)
\* pass p has merged, built and tagged its snapshot and not yet published it
C36_Tagged(p) == fpc[p] = "publish"

\* the node ids under which the merge knows the nodes of one merged document
C36_IDsOf(g) ==
  {n.NodeID : n \in SeqToSet(SuffixGateways(g.data, g.src.CommunityKey).Nodes)} \ {""}

\* the community keys of one merged source
C36_KeysOf(g) ==
  IF g.src.CommunityKeys = <<>> THEN {g.src.CommunityKey} ELSE SeqToSet(g.src.CommunityKeys)

\* the merged documents of pass p that report the node id
C36_Reporters(p, id) == {g \in SeqToSet(fgot[p]) : id \in C36_IDsOf(g)}

\* the snapshot has exactly one node of every reported id
C36_OneNodePerID(p) ==
  LET snap == heap[fptr[p]] IN
  /\ DOMAIN snap.Nodes = UNION {C36_IDsOf(g) : g \in SeqToSet(fgot[p])}
  /\ \A id \in DOMAIN snap.Nodes :
       /\ snap.Nodes[id].NodeID = id
       /\ Cardinality({i \in 1..Len(snap.NodeList) : snap.NodeList[i].NodeID = id}) = 1
  /\ \A i \in 1..Len(snap.NodeList) : snap.NodeList[i].Shadow = <<>>

\* the multi-map lists every key of every reporter, each once
C36_EveryKeyOnce(p) ==
  \A id \in DOMAIN heap[fptr[p]].Nodes :
    LET comms == MapGet(facc[p].nodeCommMap, id, <<>>) IN
    /\ SeqToSet(comms) = UNION {C36_KeysOf(g) : g \in C36_Reporters(p, id)}
    /\ \A i, j \in 1..Len(comms) : comms[i] = comms[j] => i = j

\* Community is the first key of the list, Communities the list
C36_Tags(p) ==
  \A id \in DOMAIN heap[fptr[p]].Nodes :
    LET comms == MapGet(facc[p].nodeCommMap, id, <<>>)
        n == heap[fptr[p]].Nodes[id] IN
    /\ n.Communities = comms
    /\ n.Community = comms[1]

\* Stats.Communities counts the nodes that carry the key
C36_Stats(p) ==
  LET snap == heap[fptr[p]]
      carriers(k) == {id \in DOMAIN snap.Nodes : k \in SeqToSet(snap.Nodes[id].Communities)}
  IN /\ \A k \in DOMAIN snap.Stats.Communities :
          snap.Stats.Communities[k] = Cardinality(carriers(k))
     /\ \A id \in DOMAIN snap.Nodes :
          SeqToSet(snap.Nodes[id].Communities) \subseteq DOMAIN snap.Stats.Communities

\* C36: when several sources report the same node id in one refresh, the
\* merged snapshot has exactly one node of that id, the node-to-community
\* multi-map lists every community key of every reporting source exactly
\* once, the node's Community is the first key of that list and its
\* Communities the whole list, and Stats.Communities[k] is the number of
\* snapshot nodes whose Communities contains k.
C36_MergedOnceTaggedAll ==
  \A p \in Procs :
    C36_Tagged(p)
      => C36_OneNodePerID(p) /\ C36_EveryKeyOnce(p) /\ C36_Tags(p) /\ C36_Stats(p)

\* a pass has tagged a snapshot with a node that two sources reported
C36_Witness ==
  \E p \in Procs :
    /\ C36_Tagged(p)
    /\ \E id \in DOMAIN heap[fptr[p]].Nodes :
         /\ Cardinality(C36_Reporters(p, id)) >= 2
         /\ Len(heap[fptr[p]].Nodes[id].Communities) >= 2

(***************************************************************************)
(* Properties of the event-stream handlers                                 *)
(***************************************************************************)
\* the handlers whose Subscribe returned a channel and whose deferred
\* Unsubscribe has not yet taken it out of the set
C37_Live == {h \in Handlers : hpc[h] \in {"stream", "unsub"}}

\* the handlers that have returned after a successful Subscribe
C37_Exited == {h \in Handlers : hpc[h] = "done" /\ hresp[h] = 200}

\* every handler has its own channel
C37_OwnChannel ==
  \A h1, h2 \in Handlers : (hch[h1] # 0 /\ hch[h1] = hch[h2]) => h1 = h2

\* the set of the hub is the channels of the live handlers
C37_MembersAreLive == clients = {hch[h] : h \in C37_Live}

\* the channel of a handler that has exited is out of the set and closed;
\* no other channel is closed
C37_Matched ==
  /\ \A h \in C37_Exited : hch[h] \notin clients /\ chanClosed[hch[h]]
  /\ \A ch \in 1..Len(chanClosed) :
       chanClosed[ch] => \E h \in C37_Exited : hch[h] = ch

\* ClientCount is 0 when every handler has returned
C37_CountReturnsToZero ==
  (\A h \in Handlers : hpc[h] = "done") => Cardinality(clients) = 0

\* close(ch) is executed on an open channel
C37_CloseStep ==
  \A h \in Handlers :
    (hpc[h] = "unsub_close" /\ hpc'[h] = "done")
      => /\ ~chanClosed[hch[h]]
         /\ chanClosed' = [chanClosed EXCEPT ![hch[h]] = TRUE]

\* C37: every successful Subscribe of an event-stream handler is matched by
\* exactly one Unsubscribe when the handler exits, so no channel is closed
\* twice, the membership set of the hub is always the set of the live
\* handlers' channels, and ClientCount is 0 once every client has
\* disconnected.
C37_SubscribeMatchedByUnsubscribe ==
  /\ [](C37_OwnChannel /\ C37_MembersAreLive /\ C37_Matched /\ C37_CountReturnsToZero)
  /\ [][C37_CloseStep]_vars

\* every handler has subscribed and has exited, and the set is empty
C37_Witness ==
  /\ C37_Exited = Handlers
  /\ \A h \in Handlers : chanClosed[hch[h]]
  /\ clients = {}

(***************************************************************************)
(* Properties of passes and restarts                                       *)
(***************************************************************************)
\* the ids of the gateways as the documents of a source report them
C38_ReportedGateways(src) ==
  UNION {GwOriginals(d) : d \in Docs(src.DataURL)}

\* the ids with one suffix: the reported id, "_" and the key of the source
C38_SuffixedOnce ==
  UNION {{GwSuffixed(g, CycleSources[i].CommunityKey) :
            g \in C38_ReportedGateways(CycleSources[i])} : i \in 1..Len(CycleSources)}

\* the gateways of the published snapshot
C38_SnapshotGateways == {id \in DOMAIN ysnap.Nodes : ysnap.Nodes[id].IsGateway}

\* the ids of the multi-map that are not ids of reported nodes as they are
C38_MapGateways ==
  DOMAIN ymap \ UNION {{n.NodeID : n \in SeqToSet(d.Nodes)} :
                         d \in UNION {Docs(CycleSources[i].DataURL) : i \in 1..Len(CycleSources)}}

\* the gateways of the state file
C38_FileGateways ==
  {ydisk.Nodes[i].NodeID : i \in {j \in 1..Len(ydisk.Nodes) : ydisk.Nodes[j].IsGateway}}

\* C38: the gateway suffix never accumulates: after any sequence of passes of
\* refresh-all-sources with their SaveState and of RestoreState, every
\* gateway id of the published snapshot and of the node-to-community map is
\* a reported id with exactly one "_<community key>" suffix; so are the ids
\* the state file keeps.
C38_SuffixNeverAccumulates ==
  /\ C38_SnapshotGateways \subseteq C38_SuffixedOnce
  /\ C38_MapGateways \subseteq C38_SuffixedOnce
  /\ C38_FileGateways \subseteq C38_SuffixedOnce

\* a pass was saved, the program restarted from the file and a further
\* pass merged fresh documents
C38_Witness ==
  /\ yops = MaxCycleOps
  /\ yprev.op = "restore" /\ CacheUsable(yprev.disk)
  /\ yprev.snap # EmptySnapshot
  /\ ylast.op = "refresh"
  /\ C38_SnapshotGateways # {}
  /\ C38_SnapshotGateways \subseteq DOMAIN ymap
  /\ C38_FileGateways = C38_SnapshotGateways

\* the last two operations were passes that fetched the same documents
C39_SameDocuments ==
  ylast.op = "refresh" /\ yprev.op = "refresh" /\ ylast.results = yprev.results

\* the two passes published snapshots with the same node ids
C39_SameNodes == DOMAIN ysnap.Nodes = DOMAIN ylast.snap.Nodes

\* ... with the same links
C39_SameLinks == SeqToSet(ysnap.Links) = SeqToSet(ylast.snap.Links)

\* ... with the same community keys for every node
C39_SameKeys ==
  \A id \in DOMAIN ysnap.Nodes \cap DOMAIN ylast.snap.Nodes :
    SeqToSet(ysnap.Nodes[id].Communities) = SeqToSet(ylast.snap.Nodes[id].Communities)

\* ... and the same primary community for every node
C39_SamePrimary ==
  \A id \in DOMAIN ysnap.Nodes \cap DOMAIN ylast.snap.Nodes :
    ysnap.Nodes[id].Community = ylast.snap.Nodes[id].Community

\* the parts that do not depend on the order of arrival
C39_OrderFreeParts == C39_SameDocuments => C39_SameNodes /\ C39_SameLinks /\ C39_SameKeys

\* C39: the result of a refresh-all-sources pass does not depend on the
\* order in which the concurrent fetches complete: for the same source
\* documents every completion order yields the same set of node ids, the
\* same set of links, the same set of community keys per node and the same
\* primary community per node.
C39_OrderIndependent ==
  C39_SameDocuments => C39_SameNodes /\ C39_SameLinks /\ C39_SameKeys /\ C39_SamePrimary

\* the last operation was a pass in which every fetch failed, while a
\* snapshot with nodes was published
C40_AllFailed ==
  /\ ylast.op = "refresh"
  /\ \A i \in 1..Len(ylast.results) : ylast.results[i].err
  /\ Cardinality(DOMAIN ylast.snap.Nodes) > 0

\* the state file is as it was before the pass
C40_FileKept == C40_AllFailed => ydisk = ylast.disk

\* C40: if every source fetch of a refresh-all-sources pass fails while a
\* non-empty snapshot is published, the published snapshot stays published
\* (it is not replaced by an empty one) and the state file is not
\* overwritten.
C40_FailedPassKeepsLastGood ==
  C40_AllFailed => ysnap = ylast.snap /\ ydisk = ylast.disk

====
